---- MODULE Spec2Model ----
(***************************************************************************)
(* Model of the review annotation pipeline of backend/services/            *)
(* git_service.py: GitHubService._calculate_position (the diff position    *)
(* mapper) as a line-by-line scan, and GitHubService.create_inline_comments *)
(* (the annotation builder) as a loop over the findings.                   *)
(*                                                                         *)
(* Text is modelled as a sequence of one-character strings, so that        *)
(* str.split, str.startswith, the in substring test and re.search are    *)
(* computed on the characters as the Python code computes them.            *)
(***************************************************************************)
EXTENDS Integers, Sequences, FiniteSets, TLC

\* ------------------------------------------------------------------ bounds
\* Longest patch, in lines, that Init draws.
MaxLines == 3
\* Largest target line that Init draws (the smallest is -1).
MaxTarget == 3
\* How many times _calculate_position is called on one (file_data, target).
MaxCalls == 2
\* Longest list of findings handed to create_inline_comments.
MaxFindings == 3
\* Most lines that follow the file lines in a diff for _mock_review_diff.
MaxDiffLines == 3
\* Longest file list, and longest list of findings, for the file lists in
\* any order.
MaxFileList == 3
MaxFileFindings == 2
\* Most lines ahead of, and most lines behind, the one added line of a hunk.
MaxAround == 2
\* Most lines behind the first hunk header of a patch with several hunks.
MaxHunkLines == 3

\* -------------------------------------------------------------------- text
NL == "\n"
Empty == <<>>

\* str.startswith(prefix)
StartsWith(s, p) == Len(s) >= Len(p) /\ SubSeq(s, 1, Len(p)) = p

\* `k in s` for two strings
Contains(s, k) ==
    \E i \in 1..(Len(s) - Len(k) + 1) : SubSeq(s, i, i + Len(k) - 1) = k

\* str.split('\n'): the pieces between the newlines, Len = newlines + 1
RECURSIVE SplitFrom(_, _, _)
SplitFrom(s, i, cur) ==
    IF i > Len(s) THEN <<cur>>
    ELSE IF s[i] = NL THEN <<cur>> \o SplitFrom(s, i + 1, Empty)
    ELSE SplitFrom(s, i + 1, Append(cur, s[i]))

Split(s) == SplitFrom(s, 1, Empty)

\* '\n'.join(lines)
RECURSIVE Join(_)
Join(ls) ==
    IF Len(ls) = 0 THEN Empty
    ELSE IF Len(ls) = 1 THEN ls[1]
    ELSE ls[1] \o <<NL>> \o Join(Tail(ls))

\* ------------------------------------------------- the hunk header pattern
\* re.search(r'@@\s*-\d+(?:,\d+)?\s*\+(\d+)(?:,\d+)?\s*@@', line)
IsDigit(c) == c \in {"0", "1", "2", "3", "4", "5", "6", "7", "8", "9"}
IsSpace(c) == c \in {" ", "\t"}

DigitVal(c) ==
    CASE c = "0" -> 0 [] c = "1" -> 1 [] c = "2" -> 2 [] c = "3" -> 3
      [] c = "4" -> 4 [] c = "5" -> 5 [] c = "6" -> 6 [] c = "7" -> 7
      [] c = "8" -> 8 [] c = "9" -> 9

\* \s* from index i: the index of the first character that is not a space
RECURSIVE SkipSpaces(_, _)
SkipSpaces(s, i) ==
    IF i <= Len(s) /\ IsSpace(s[i]) THEN SkipSpaces(s, i + 1) ELSE i

\* \d* from index i: the index of the first character that is not a digit
RECURSIVE SkipDigits(_, _)
SkipDigits(s, i) ==
    IF i <= Len(s) /\ IsDigit(s[i]) THEN SkipDigits(s, i + 1) ELSE i

\* (?:,\d+)? from index i: the index after the optional group
SkipCount(s, i) ==
    IF i <= Len(s) /\ s[i] = "," /\ SkipDigits(s, i + 1) > i + 1
    THEN SkipDigits(s, i + 1)
    ELSE i

CharAt(s, i, c) == i <= Len(s) /\ s[i] = c

\* int(digits)
RECURSIVE ToInt(_)
ToInt(ds) ==
    IF Len(ds) = 0 THEN 0
    ELSE 10 * ToInt(SubSeq(ds, 1, Len(ds) - 1)) + DigitVal(ds[Len(ds)])

\* The pattern anchored at index i: <<TRUE, group 1>> or <<FALSE, 0>>.  Every
\* quantifier is greedy and followed by a character it cannot itself match,
\* so the greedy choice is the only one that can succeed.
MatchAt(s, i) ==
    LET a == SkipSpaces(s, i + 2)           \* @@\s*
        b == SkipDigits(s, a + 1)           \* -\d+
        c == SkipSpaces(s, SkipCount(s, b)) \* (?:,\d+)?\s*
        d == SkipDigits(s, c + 1)           \* \+(\d+)
        e == SkipSpaces(s, SkipCount(s, d)) \* (?:,\d+)?\s*
    IN  IF /\ CharAt(s, i, "@") /\ CharAt(s, i + 1, "@")
           /\ CharAt(s, a, "-") /\ b > a + 1
           /\ CharAt(s, c, "+") /\ d > c + 1
           /\ CharAt(s, e, "@") /\ CharAt(s, e + 1, "@")
        THEN <<TRUE, ToInt(SubSeq(s, c + 1, d - 1))>>
        ELSE <<FALSE, 0>>

\* re.search: the leftmost index at which the pattern matches
RECURSIVE SearchFrom(_, _)
SearchFrom(s, i) ==
    IF i > Len(s) THEN <<FALSE, 0>>
    ELSE IF MatchAt(s, i)[1] THEN MatchAt(s, i)
    ELSE SearchFrom(s, i + 1)

HunkMatch(line) == SearchFrom(line, 1)[1]
\* int(match.group(1))
HunkNewStart(line) == SearchFrom(line, 1)[2]

\* ------------------------------------------- the branches of the scan loop
\* The if/elif chain of the loop body classifies a line by its first
\* characters, in this order.
IsHeaderLine(line) == StartsWith(line, <<"@", "@">>)
IsPlusLine(line) == ~IsHeaderLine(line) /\ StartsWith(line, <<"+">>)
IsMinusLine(line) ==
    ~IsHeaderLine(line) /\ ~StartsWith(line, <<"+">>) /\ StartsWith(line, <<"-">>)
IsSpaceLine(line) ==
    /\ ~IsHeaderLine(line) /\ ~StartsWith(line, <<"+">>)
    /\ ~StartsWith(line, <<"-">>) /\ StartsWith(line, <<" ">>)
IsOtherLine(line) ==
    /\ ~IsHeaderLine(line) /\ ~StartsWith(line, <<"+">>)
    /\ ~StartsWith(line, <<"-">>) /\ ~StartsWith(line, <<" ">>)

\* ------------------------------------------ _calculate_position as a value
\* The loop of _calculate_position from its i-th line on, with the locals
\* position and current_new_line as they are before that line.
RECURSIVE ScanFrom(_, _, _, _, _)
ScanFrom(lines, i, pos, cur, target) ==
    IF i > Len(lines) THEN 0
    ELSE LET line == lines[i] IN
        IF IsHeaderLine(line)
        THEN ScanFrom(lines, i + 1, pos + 1,
                      IF HunkMatch(line) THEN HunkNewStart(line) - 1 ELSE cur,
                      target)
        ELSE IF IsPlusLine(line)
        THEN IF cur + 1 = target
             THEN pos + 1
             ELSE ScanFrom(lines, i + 1, pos + 1, cur + 1, target)
        ELSE IF IsMinusLine(line)
        THEN ScanFrom(lines, i + 1, pos + 1, cur, target)
        ELSE IF IsSpaceLine(line)
        THEN ScanFrom(lines, i + 1, pos + 1, cur + 1, target)
        ELSE ScanFrom(lines, i + 1, pos + 1, cur, target)

\* position counted from each hunk header anew instead of through the patch
RECURSIVE ScanFrom_PositionPerHunk(_, _, _, _, _)
ScanFrom_PositionPerHunk(lines, i, pos, cur, target) ==
    IF i > Len(lines) THEN 0
    ELSE LET line == lines[i] IN
        IF IsHeaderLine(line)
        THEN ScanFrom_PositionPerHunk(lines, i + 1, 1,
                      IF HunkMatch(line) THEN HunkNewStart(line) - 1 ELSE cur,
                      target)
        ELSE IF IsPlusLine(line)
        THEN IF cur + 1 = target
             THEN pos + 1
             ELSE ScanFrom_PositionPerHunk(lines, i + 1, pos + 1, cur + 1, target)
        ELSE ScanFrom_PositionPerHunk(lines, i + 1, pos + 1,
                      IF IsSpaceLine(line) THEN cur + 1 ELSE cur, target)

CalculatePosition_PositionPerHunk(fd, target) ==
    IF "patch" \notin DOMAIN fd THEN 0
    ELSE ScanFrom_PositionPerHunk(Split(fd["patch"]), 1, 0, 0, target)

CalculatePosition(fd, target) ==
    IF "patch" \notin DOMAIN fd THEN 0
    ELSE ScanFrom(Split(fd["patch"]), 1, 0, 0, target)

\* --------------------------------------------------------- _detect_language
UpperCase ==
    <<"A", "B", "C", "D", "E", "F", "G", "H", "I", "J", "K", "L", "M", "N",
      "O", "P", "Q", "R", "S", "T", "U", "V", "W", "X", "Y", "Z">>
LowerCase ==
    <<"a", "b", "c", "d", "e", "f", "g", "h", "i", "j", "k", "l", "m", "n",
      "o", "p", "q", "r", "s", "t", "u", "v", "w", "x", "y", "z">>

LowerChar(c) ==
    IF \E k \in DOMAIN UpperCase : UpperCase[k] = c
    THEN LowerCase[CHOOSE k \in DOMAIN UpperCase : UpperCase[k] = c]
    ELSE c

\* str.lower()
Lower(s) == [k \in DOMAIN s |-> LowerChar(s[k])]

PythonKeywords ==
    { <<"d", "e", "f", " ">>,
      <<"i", "m", "p", "o", "r", "t", " ">>,
      <<"f", "r", "o", "m", " ">>,
      <<"p", "r", "i", "n", "t", "(">>,
      <<"_", "_", "i", "n", "i", "t", "_", "_">> }
JavaScriptKeywords ==
    { <<"f", "u", "n", "c", "t", "i", "o", "n", " ">>,
      <<"c", "o", "n", "s", "t", " ">>,
      <<"l", "e", "t", " ">>,
      <<"v", "a", "r", " ">>,
      <<"=", ">">>,
      <<"c", "o", "n", "s", "o", "l", "e", ".", "l", "o", "g">> }
JavaKeywords ==
    { <<"p", "u", "b", "l", "i", "c", " ", "c", "l", "a", "s", "s">>,
      <<"p", "r", "i", "v", "a", "t", "e", " ">>,
      <<"p", "u", "b", "l", "i", "c", " ", "s", "t", "a", "t", "i", "c">>,
      <<"s", "y", "s", "t", "e", "m", ".", "o", "u", "t">> }
CppKeywords ==
    { <<"#", "i", "n", "c", "l", "u", "d", "e">>,
      <<"i", "n", "t", " ", "m", "a", "i", "n">>,
      <<"p", "r", "i", "n", "t", "f", "(">>,
      <<"c", "o", "u", "t", " ", "<", "<">> }
GoKeywords ==
    { <<"f", "u", "n", "c", " ">>,
      <<"p", "a", "c", "k", "a", "g", "e", " ">>,
      <<"i", "m", "p", "o", "r", "t", " ", "(">>,
      <<"f", "m", "t", ".", "p", "r", "i", "n", "t">> }

\* any(keyword in code_lower for keyword in [...])
AnyKeyword(code_lower, keywords) == \E k \in keywords : Contains(code_lower, k)

\* the keywords looked for in the snippet as it is, not in code_snippet.lower()
DetectLanguage_CaseSensitive(code_snippet) ==
    LET code_lower == code_snippet IN
    IF AnyKeyword(code_lower, PythonKeywords)
    THEN <<"p", "y", "t", "h", "o", "n">>
    ELSE IF AnyKeyword(code_lower, JavaScriptKeywords)
    THEN <<"j", "a", "v", "a", "s", "c", "r", "i", "p", "t">>
    ELSE IF AnyKeyword(code_lower, JavaKeywords)
    THEN <<"j", "a", "v", "a">>
    ELSE IF AnyKeyword(code_lower, CppKeywords)
    THEN <<"c", "p", "p">>
    ELSE IF AnyKeyword(code_lower, GoKeywords)
    THEN <<"g", "o">>
    ELSE <<"t", "e", "x", "t">>

\* the tests without the last one, for the go keywords
DetectLanguage_NoGo(code_snippet) ==
    LET code_lower == Lower(code_snippet) IN
    IF AnyKeyword(code_lower, PythonKeywords)
    THEN <<"p", "y", "t", "h", "o", "n">>
    ELSE IF AnyKeyword(code_lower, JavaScriptKeywords)
    THEN <<"j", "a", "v", "a", "s", "c", "r", "i", "p", "t">>
    ELSE IF AnyKeyword(code_lower, JavaKeywords)
    THEN <<"j", "a", "v", "a">>
    ELSE IF AnyKeyword(code_lower, CppKeywords)
    THEN <<"c", "p", "p">>
    ELSE <<"t", "e", "x", "t">>

DetectLanguage(code_snippet) ==
    LET code_lower == Lower(code_snippet) IN
    IF AnyKeyword(code_lower, PythonKeywords)
    THEN <<"p", "y", "t", "h", "o", "n">>
    ELSE IF AnyKeyword(code_lower, JavaScriptKeywords)
    THEN <<"j", "a", "v", "a", "s", "c", "r", "i", "p", "t">>
    ELSE IF AnyKeyword(code_lower, JavaKeywords)
    THEN <<"j", "a", "v", "a">>
    ELSE IF AnyKeyword(code_lower, CppKeywords)
    THEN <<"c", "p", "p">>
    ELSE IF AnyKeyword(code_lower, GoKeywords)
    THEN <<"g", "o">>
    ELSE <<"t", "e", "x", "t">>

\* --------------------------------------------------- _format_comment_message
\* A finding is a dict: a record whose DOMAIN holds the keys that are present.
Has(d, k) == k \in DOMAIN d
\* dict.get(k, default)
Get(d, k, default) == IF k \in DOMAIN d THEN d[k] ELSE default

Suggestion == <<"S", "U", "G", "G", "E", "S", "T", "I", "O", "N">>
Stars == <<"*", "*">>
\* U+0060, which a TLA+ string cannot hold, as a token of its own
Backtick == "<backtick>"
Fence == <<Backtick, Backtick, Backtick>>
GenericMessage ==
    <<"C", "o", "d", "e", " ", "r", "e", "v", "i", "e", "w", " ",
      "s", "u", "g", "g", "e", "s", "t", "i", "o", "n">>

\* f"**{severity}**: {text}"
SeverityLine(severity, text) ==
    Stars \o severity \o Stars \o <<":", " ">> \o text

\* f"<fence>{language}\n{code_snippet}\n<fence>", the fence being three backticks
CodeBlock(code_snippet) ==
    Fence \o DetectLanguage(code_snippet) \o <<NL>> \o code_snippet
        \o <<NL>> \o Fence

\* the structured branch with the impact line ahead of the code block
StructuredMessage_ImpactFirst(cd) ==
    LET severity == Get(cd, "severity", Suggestion)
        issue == Get(cd, "issue", Empty)
        impact == Get(cd, "impact", Empty)
        fix == Get(cd, "fix", Empty)
        code_snippet == Get(cd, "code_snippet", Empty)
        parts ==
            (IF issue # Empty THEN << SeverityLine(severity, issue) >> ELSE << >>)
            \o (IF impact # Empty
                THEN << <<NL>> \o Stars \o <<"I", "m", "p", "a", "c", "t", ":">>
                        \o Stars \o <<" ">> \o impact >>
                ELSE << >>)
            \o (IF code_snippet # Empty
                THEN << <<NL>> \o Stars
                        \o <<"C", "u", "r", "r", "e", "n", "t", " ", "c", "o", "d", "e", ":">>
                        \o Stars \o <<NL>> \o CodeBlock(code_snippet) >>
                ELSE << >>)
            \o (IF fix # Empty
                THEN << <<NL>> \o Stars
                        \o <<"R", "e", "c", "o", "m", "m", "e", "n", "d", "e", "d", " ", "f", "i", "x", ":">>
                        \o Stars \o <<" ">> \o fix >>
                ELSE << >>)
    IN  IF parts # << >> THEN Join(parts) ELSE Empty

\* the branch for a finding that has "issue", "impact" or "fix"
StructuredMessage(cd) ==
    LET severity == Get(cd, "severity", Suggestion)
        issue == Get(cd, "issue", Empty)
        impact == Get(cd, "impact", Empty)
        fix == Get(cd, "fix", Empty)
        code_snippet == Get(cd, "code_snippet", Empty)
        parts ==
            (IF issue # Empty THEN << SeverityLine(severity, issue) >> ELSE << >>)
            \o (IF code_snippet # Empty
                THEN << <<NL>> \o Stars
                        \o <<"C", "u", "r", "r", "e", "n", "t", " ", "c", "o", "d", "e", ":">>
                        \o Stars \o <<NL>> \o CodeBlock(code_snippet) >>
                ELSE << >>)
            \o (IF impact # Empty
                THEN << <<NL>> \o Stars \o <<"I", "m", "p", "a", "c", "t", ":">>
                        \o Stars \o <<" ">> \o impact >>
                ELSE << >>)
            \o (IF fix # Empty
                THEN << <<NL>> \o Stars
                        \o <<"R", "e", "c", "o", "m", "m", "e", "n", "d", "e", "d", " ", "f", "i", "x", ":">>
                        \o Stars \o <<" ">> \o fix >>
                ELSE << >>)
    IN  IF parts # << >> THEN Join(parts) ELSE Empty

\* the legacy branch with a code block for every non-empty code_snippet
LegacyMessage_AlwaysBlock(cd) ==
    LET message == Get(cd, "message", Empty)
        severity == Get(cd, "severity", Suggestion)
        code_snippet == Get(cd, "code_snippet", Empty)
    IN  IF code_snippet # Empty
        THEN SeverityLine(severity, message) \o <<NL, NL>> \o CodeBlock(code_snippet)
        ELSE SeverityLine(severity, message)

\* the branch for a finding that has "message" only
LegacyMessage(cd) ==
    LET message == Get(cd, "message", Empty)
        severity == Get(cd, "severity", Suggestion)
        code_snippet == Get(cd, "code_snippet", Empty)
    IN  IF code_snippet # Empty /\ ~Contains(message, code_snippet)
        THEN SeverityLine(severity, message) \o <<NL, NL>> \o CodeBlock(code_snippet)
        ELSE SeverityLine(severity, message)

\* the fallback branch with no body for a finding without code_snippet
FallbackMessage_NeedsSnippet(cd) ==
    LET severity == Get(cd, "severity", Suggestion)
        code_snippet == Get(cd, "code_snippet", Empty)
    IN  IF code_snippet # Empty
        THEN SeverityLine(severity, GenericMessage) \o <<NL, NL>>
                \o CodeBlock(code_snippet)
        ELSE Empty

\* the branch for a finding that has none of the four
FallbackMessage(cd) ==
    LET severity == Get(cd, "severity", Suggestion)
        code_snippet == Get(cd, "code_snippet", Empty)
    IN  IF code_snippet # Empty
        THEN SeverityLine(severity, GenericMessage) \o <<NL, NL>>
                \o CodeBlock(code_snippet)
        ELSE SeverityLine(severity, GenericMessage)

\* the "message" test ahead of the test for "issue", "impact" and "fix"
FormatCommentMessage_LegacyFirst(cd) ==
    IF Has(cd, "message") THEN LegacyMessage(cd)
    ELSE IF Has(cd, "issue") \/ Has(cd, "impact") \/ Has(cd, "fix")
    THEN StructuredMessage(cd)
    ELSE FallbackMessage(cd)

FormatCommentMessage(cd) ==
    IF Has(cd, "issue") \/ Has(cd, "impact") \/ Has(cd, "fix")
    THEN StructuredMessage(cd)
    ELSE IF Has(cd, "message") THEN LegacyMessage(cd)
    ELSE FallbackMessage(cd)

\* ------------------------------------------------ verify_webhook_signature
\* None, the value of a setting whose environment variable is not set, and a
\* character outside ASCII, each as a token of its own
None == <<"<None>">>
NonAscii == "<non-ASCII>"

Sha256Prefix == <<"s", "h", "a", "2", "5", "6", "=">>

SecretK == <<"k">>
SecretS3 == <<"s", "3">>
BodyBraces == <<"{", "}">>
BodyObject == <<"{", "\"", "a", "\"", ":", "1", "}">>

\* Payloads of the webhook: a number, a byte that is not UTF-8 (a token of
\* its own), a pull_request event for an action, and one that lacks
\* "repository"
BodyOne == <<"1">>
ByteFF == "<byte 0xff>"
BodyNotUtf8 == << ByteFF >>
Opened == <<"o", "p", "e", "n", "e", "d">>
Synchronize == <<"s", "y", "n", "c", "h", "r", "o", "n", "i", "z", "e">>
Closed == <<"c", "l", "o", "s", "e", "d">>
PrEventHead == <<"{", "\"", "a", "c", "t", "i", "o", "n", "\"", ":", "\"">>
PrEventTail ==
    <<"\"", ",", "\"", "p", "u", "l", "l", "_", "r", "e", "q", "u", "e", "s",
      "t", "\"", ":", "{", "\"", "n", "u", "m", "b", "e", "r", "\"", ":",
      "7", ",", "\"", "t", "i", "t", "l", "e", "\"", ":", "\"", "t", "\"",
      ",", "\"", "h", "t", "m", "l", "_", "u", "r", "l", "\"", ":", "\"",
      "u", "\"", ",", "\"", "u", "s", "e", "r", "\"", ":", "{", "\"", "l",
      "o", "g", "i", "n", "\"", ":", "\"", "a", "\"", "}", ",", "\"", "h",
      "e", "a", "d", "\"", ":", "{", "\"", "r", "e", "f", "\"", ":", "\"",
      "h", "\"", "}", ",", "\"", "b", "a", "s", "e", "\"", ":", "{", "\"",
      "r", "e", "f", "\"", ":", "\"", "m", "\"", "}", "}", ",", "\"", "r",
      "e", "p", "o", "s", "i", "t", "o", "r", "y", "\"", ":", "{", "\"", "n",
      "a", "m", "e", "\"", ":", "\"", "r", "\"", ",", "\"", "f", "u", "l",
      "l", "_", "n", "a", "m", "e", "\"", ":", "\"", "o", "/", "r", "\"",
      ",", "\"", "o", "w", "n", "e", "r", "\"", ":", "{", "\"", "l", "o",
      "g", "i", "n", "\"", ":", "\"", "o", "\"", "}", "}", "}">>
PrEvent(action) == PrEventHead \o action \o PrEventTail
PrNoRepository ==
    <<"{", "\"", "a", "c", "t", "i", "o", "n", "\"", ":", "\"", "o", "p",
      "e", "n", "e", "d", "\"", ",", "\"", "p", "u", "l", "l", "_", "r", "e",
      "q", "u", "e", "s", "t", "\"", ":", "{", "\"", "n", "u", "m", "b", "e",
      "r", "\"", ":", "7", "}", "}">>

\* not self.webhook_secret: None and "" are the false values
NoSecret(secret) == secret = None \/ secret = Empty

\* hmac.new(secret.encode(), payload_body, hashlib.sha256).hexdigest(), for
\* the secrets and payloads above
HexDigest(secret, payload) ==
    CASE secret = SecretK /\ payload = Empty ->
             <<"8", "b", "b", "9", "9", "0", "c", "4", "0", "a", "7", "d", "6", "1", "c", "b",
               "9", "7", "5", "9", "7", "a", "9", "4", "2", "1", "2", "5", "0", "2", "5", "b",
               "e", "5", "0", "a", "c", "8", "b", "e", "b", "7", "4", "4", "3", "6", "e", "3",
               "7", "3", "5", "b", "9", "8", "8", "9", "3", "a", "7", "f", "6", "6", "2", "0">>
      [] secret = SecretK /\ payload = BodyBraces ->
             <<"a", "d", "d", "8", "5", "3", "b", "1", "0", "3", "f", "b", "c", "c", "9", "3",
               "6", "a", "1", "9", "4", "f", "9", "e", "b", "1", "5", "e", "2", "9", "c", "4",
               "f", "f", "0", "8", "a", "f", "6", "e", "4", "7", "d", "5", "d", "1", "b", "c",
               "a", "4", "f", "2", "0", "2", "1", "8", "e", "3", "1", "e", "4", "f", "f", "f">>
      [] secret = SecretK /\ payload = BodyObject ->
             <<"c", "3", "a", "9", "2", "f", "f", "9", "e", "2", "7", "4", "c", "d", "c", "c",
               "e", "2", "7", "a", "5", "8", "c", "1", "5", "a", "7", "8", "e", "c", "6", "d",
               "c", "b", "b", "d", "b", "d", "0", "0", "3", "8", "a", "8", "7", "e", "7", "a",
               "1", "1", "b", "a", "e", "f", "2", "0", "2", "8", "f", "d", "8", "b", "f", "f">>
      [] secret = SecretS3 /\ payload = Empty ->
             <<"2", "d", "7", "6", "0", "5", "7", "9", "0", "b", "9", "a", "9", "f", "f", "2",
               "e", "0", "a", "c", "2", "4", "4", "2", "7", "4", "b", "c", "f", "b", "4", "4",
               "1", "e", "c", "9", "8", "4", "2", "3", "3", "2", "a", "6", "5", "c", "3", "e",
               "d", "c", "4", "4", "f", "2", "e", "f", "a", "b", "3", "b", "a", "5", "3", "8">>
      [] secret = SecretS3 /\ payload = BodyBraces ->
             <<"5", "3", "5", "6", "d", "2", "7", "8", "f", "9", "9", "4", "6", "a", "1", "0",
               "8", "5", "d", "d", "7", "c", "a", "a", "2", "3", "d", "f", "c", "e", "c", "e",
               "9", "d", "5", "6", "4", "5", "9", "9", "8", "5", "2", "6", "8", "3", "b", "b",
               "1", "d", "3", "f", "7", "d", "7", "8", "f", "2", "8", "e", "c", "b", "8", "b">>
      [] secret = SecretS3 /\ payload = BodyObject ->
             <<"f", "c", "7", "d", "c", "b", "9", "6", "0", "7", "9", "c", "b", "0", "d", "1",
               "2", "6", "8", "1", "1", "1", "0", "7", "0", "4", "1", "5", "0", "2", "5", "3",
               "4", "d", "8", "4", "9", "8", "6", "2", "a", "5", "8", "4", "8", "c", "9", "1",
               "7", "e", "c", "c", "6", "9", "6", "5", "9", "2", "3", "a", "2", "d", "7", "4">>
      [] secret = SecretK /\ payload = BodyOne ->
             <<"0", "a", "a", "2", "0", "5", "4", "d", "8", "8", "5", "5", "6", "d", "7", "e",
               "5", "d", "f", "6", "e", "5", "4", "b", "0", "0", "6", "8", "3", "d", "a", "e",
               "8", "0", "b", "b", "d", "4", "2", "6", "6", "a", "5", "d", "1", "c", "b", "c",
               "8", "9", "a", "b", "a", "c", "b", "f", "8", "5", "6", "a", "d", "8", "6", "2">>
      [] secret = SecretK /\ payload = BodyNotUtf8 ->
             <<"b", "e", "f", "8", "a", "8", "b", "b", "6", "c", "6", "a", "c", "2", "7", "e",
               "b", "1", "b", "2", "2", "7", "4", "9", "c", "f", "f", "e", "f", "0", "d", "1",
               "7", "a", "0", "3", "c", "c", "4", "4", "5", "e", "7", "9", "9", "2", "9", "1",
               "2", "a", "e", "b", "7", "e", "9", "6", "e", "9", "4", "7", "f", "4", "d", "c">>
      [] secret = SecretK /\ payload = PrEvent(Opened) ->
             <<"9", "4", "3", "0", "a", "f", "a", "f", "5", "9", "7", "2", "d", "5", "b", "5",
               "8", "4", "a", "5", "4", "8", "0", "8", "d", "d", "4", "3", "9", "6", "0", "b",
               "2", "9", "a", "5", "9", "3", "3", "1", "8", "d", "b", "a", "7", "9", "c", "d",
               "8", "3", "2", "2", "3", "8", "9", "5", "3", "5", "8", "4", "d", "6", "5", "5">>
      [] secret = SecretK /\ payload = PrEvent(Synchronize) ->
             <<"9", "4", "9", "2", "0", "0", "e", "2", "9", "7", "4", "0", "f", "8", "3", "1",
               "f", "a", "2", "a", "f", "c", "4", "3", "0", "3", "7", "4", "0", "3", "b", "9",
               "7", "2", "7", "3", "0", "7", "1", "4", "9", "4", "9", "6", "6", "8", "a", "f",
               "3", "1", "a", "f", "e", "d", "a", "e", "2", "5", "5", "c", "b", "6", "3", "a">>
      [] secret = SecretK /\ payload = PrEvent(Closed) ->
             <<"6", "1", "c", "7", "0", "c", "8", "0", "2", "1", "b", "2", "3", "a", "7", "b",
               "4", "b", "c", "8", "6", "7", "c", "4", "7", "7", "b", "b", "6", "a", "9", "e",
               "b", "8", "3", "3", "8", "2", "2", "a", "1", "7", "6", "c", "2", "d", "5", "d",
               "3", "2", "8", "f", "0", "6", "a", "e", "1", "c", "0", "6", "6", "f", "a", "4">>
      [] secret = SecretK /\ payload = PrNoRepository ->
             <<"b", "7", "7", "8", "d", "0", "0", "b", "8", "5", "6", "2", "a", "7", "6", "e",
               "3", "e", "0", "2", "4", "b", "c", "6", "a", "b", "7", "6", "2", "6", "6", "7",
               "d", "c", "5", "1", "7", "5", "8", "2", "3", "1", "5", "e", "b", "a", "3", "3",
               "7", "8", "a", "d", "d", "c", "8", "e", "d", "b", "2", "b", "b", "9", "5", "9">>

\* expected_signature = "sha256=" + ...hexdigest()
ExpectedSignature(secret, payload) == Sha256Prefix \o HexDigest(secret, payload)

\* hmac.compare_digest(a, b) on two str accepts ASCII only
IsAscii(s) == \A k \in DOMAIN s : s[k] # NonAscii

\* ------------------------------------------------------------- the inputs
\* Patch lines the scan is exercised on: two hunk headers that parse (new
\* start 1 and 3), a header that does not, the two file markers, an added, a
\* removed and a context line, an empty line and a "\ No newline" line.
HeaderAt1 == <<"@", "@", " ", "-", "1", ",", "3", " ", "+", "1", ",", "4", " ", "@", "@">>
HeaderAt3 == <<"@", "@", " ", "-", "2", " ", "+", "3", " ", "@", "@">>
HeaderBad == <<"@", "@", " ", "x">>
MarkerNew == <<"+", "+", "+", " ", "b">>
MarkerOld == <<"-", "-", "-", " ", "a">>
AddedX == <<"+", "x">>
RemovedX == <<"-", "x">>
ContextX == <<" ", "x">>
NoNewline == <<"\\", " ", "n">>

SampleLines ==
    { HeaderAt1, HeaderAt3, HeaderBad, MarkerNew, MarkerOld,
      AddedX, RemovedX, ContextX, Empty, NoNewline }

SamplePatches ==
    { Join(ls) : ls \in UNION { [1..n -> SampleLines] : n \in 1..MaxLines } }

\* file_data: one entry of the GitHub files API, with or without "patch"
SampleFiles ==
    { [filename |-> "a.py"] }
        \cup { [filename |-> "a.py", patch |-> p] : p \in SamplePatches }

Targets == (0 - 1)..MaxTarget

\* The worked example of the specification:
\* "@@ -1,3 +1,4 @@\n line1\n+line2\n line3\n+line4", targets 2, 4 and 99
ExamplePatch ==
    Join(<< HeaderAt1,
            <<" ", "l", "i", "n", "e", "1">>,
            <<"+", "l", "i", "n", "e", "2">>,
            <<" ", "l", "i", "n", "e", "3">>,
            <<"+", "l", "i", "n", "e", "4">> >>)
ExampleFile == [filename |-> "example.py", patch |-> ExamplePatch]
ExampleTargets == {1, 2, 3, 4, 99}

ScanInputs ==
    (SampleFiles \X Targets) \cup ({ExampleFile} \X ExampleTargets)

\* The file lists create_inline_comments is exercised on.  In FileA line 1 is
\* added (position 2), line 2 is context and line 3 is added (position 4);
\* FileB has no patch; FileA2 repeats FileA's name with another patch.
FileA == [filename |-> "a.py",
          patch |-> Join(<<HeaderAt1, AddedX, ContextX, AddedX>>)]
FileB == [filename |-> "b.py"]
FileA2 == [filename |-> "a.py", patch |-> Join(<<HeaderAt3, AddedX>>)]

SampleFileLists == { << >>, <<FileA, FileB>>, <<FileA, FileA2>> }

High == <<"H", "I", "G", "H">>
Low == <<"L", "O", "W">>
Risky == <<"r", "i", "s", "k", "y">>
QuoteIt == <<"q", "u", "o", "t", "e", " ", "i", "t">>
EvalX == <<"e", "v", "a", "l", "(", "x", ")">>
UseEvalX ==
    <<"u", "s", "e", " ", "e", "v", "a", "l", "(", "x", ")", " ", "h", "e", "r", "e">>

\* The findings: one of each schema that resolves, and one for each way a
\* finding is dropped.
FStructured ==
    [file |-> "a.py", line |-> 1, severity |-> High, issue |-> Risky,
     impact |-> Risky, fix |-> QuoteIt, code_snippet |-> EvalX]
FLegacy ==
    [file |-> "a.py", line |-> 3, severity |-> Low, message |-> UseEvalX,
     code_snippet |-> EvalX]
FFallback == [file |-> "a.py", line |-> 3]
FNoFile == [line |-> 1, issue |-> Risky]
FLineZero == [file |-> "a.py", line |-> 0, issue |-> Risky]
FUnknownFile == [file |-> "c.py", line |-> 1, issue |-> Risky]
FContext == [file |-> "a.py", line |-> 2, issue |-> Risky]
FNoPatch == [file |-> "b.py", line |-> 1, issue |-> Risky]
FEmptyStructured == [file |-> "a.py", line |-> 1, issue |-> Empty]

SampleFindings ==
    { FStructured, FLegacy, FFallback, FNoFile, FLineZero, FUnknownFile,
      FContext, FNoPatch, FEmptyStructured }

\* A finding that is a JSON string instead of an object: .get on it raises
\* AttributeError
FString == [py_str |-> Risky]
IsDict(cd) == ~Has(cd, "py_str")

\* ai_review_result with such a finding between two that resolve
ResultWithString ==
    [overall_review |-> "ok", line_comments |-> <<FStructured, FString, FLegacy>>]

\* ai_review_result: with a "line_comments" list, or without the key
SampleResults ==
    { [overall_review |-> "ok"], ResultWithString }
        \cup { [overall_review |-> "ok", line_comments |-> fs] :
                fs \in UNION { [1..n -> SampleFindings] : n \in 0..MaxFindings } }

\* Findings for _format_comment_message: every combination of the six optional
\* keys, each absent, empty or with a text of its own; code_snippet also with
\* a text that "message" does not contain. All are on line 1 of a.py.
Absent == <<"<absent>">>
Leaks == <<"l", "e", "a", "k", "s">>
DefF == <<"d", "e", "f", " ", "f", "(", ")", ":">>

FindingOf(fields) ==
    [k \in {"file", "line"} \cup { f \in DOMAIN fields : fields[f] # Absent } |->
        IF k = "file" THEN "a.py" ELSE IF k = "line" THEN 1 ELSE fields[k]]

FormatFindings ==
    { FindingOf([severity |-> s, issue |-> i, impact |-> p, fix |-> f,
                 message |-> m, code_snippet |-> c]) :
        s \in {Absent, High}, i \in {Absent, Empty, Risky},
        p \in {Absent, Empty, Leaks}, f \in {Absent, Empty, QuoteIt},
        m \in {Absent, Empty, UseEvalX}, c \in {Absent, Empty, EvalX, DefF} }

\* one finding per call; the four that are not formatted are there for the
\* other ways out of the loop
FormatResults ==
    { [overall_review |-> "ok", line_comments |-> << f >>] :
        f \in FormatFindings \cup {FNoFile, FUnknownFile, FContext, FString} }

\* Snippets for _detect_language: every keyword, alone and next to every other
\* one, some text without a keyword, in the case of the keyword lists and in
\* upper case, and the two snippets of the documentation.
UpperChar(c) ==
    IF \E k \in DOMAIN LowerCase : LowerCase[k] = c
    THEN UpperCase[CHOOSE k \in DOMAIN LowerCase : LowerCase[k] = c]
    ELSE c
Upper(s) == [k \in DOMAIN s |-> UpperChar(s[k])]

PlainText == <<"x", " ", "=", " ", "1">>
DefFooImportOs ==
    <<"d", "e", "f", " ", "f", "o", "o", "(", ")", ":", " ",
      "i", "m", "p", "o", "r", "t", " ", "o", "s">>
ConstArrow ==
    <<"c", "o", "n", "s", "t", " ", "x", " ", "=", " ", "(", ")", " ",
      "=", ">", " ", "1">>

SnippetPieces ==
    PythonKeywords \cup JavaScriptKeywords \cup JavaKeywords \cup CppKeywords
        \cup GoKeywords \cup {Empty, PlainText}

SampleSnippets ==
    LET pairs == { p \o q : p \in SnippetPieces, q \in SnippetPieces }
    IN  pairs \cup { Upper(s) : s \in pairs } \cup {DefFooImportOs, ConstArrow}

\* Inputs of verify_webhook_signature: the secret unset, empty or set; three
\* payloads; as header the right signature of each secret and payload, that
\* signature with its last character changed inside ASCII and outside it,
\* cut short, in upper case and without the prefix, and no header.
SampleSecrets == {None, Empty, SecretK, SecretS3}
SamplePayloads == {Empty, BodyBraces, BodyObject}

ChangeLast(s, c) == SubSeq(s, 1, Len(s) - 1) \o << c >>

HeadersFor(secret, payload) ==
    LET good == ExpectedSignature(secret, payload)
    IN  { good,
          ChangeLast(good, IF good[Len(good)] = "0" THEN "1" ELSE "0"),
          ChangeLast(good, NonAscii),
          SubSeq(good, 1, Len(good) - 1),
          Upper(good),
          HexDigest(secret, payload) }

SampleHeaders ==
    {Empty, Sha256Prefix, << NonAscii >>}
        \cup UNION { HeadersFor(s, p) :
                        s \in {SecretK, SecretS3}, p \in SamplePayloads }

\* ---------------------------------------------------- _mock_review_diff
\* str.split(sep) for a separator of one character
RECURSIVE SplitAt(_, _, _, _)
SplitAt(s, i, cur, sep) ==
    IF i > Len(s) THEN <<cur>>
    ELSE IF s[i] = sep THEN <<cur>> \o SplitAt(s, i + 1, Empty, sep)
    ELSE SplitAt(s, i + 1, Append(cur, s[i]), sep)

\* str.strip()
IsWhite(c) == IsSpace(c) \/ c = NL
RECURSIVE Strip(_)
Strip(s) ==
    IF s = Empty THEN Empty
    ELSE IF IsWhite(s[1]) THEN Strip(Tail(s))
    ELSE IF IsWhite(s[Len(s)]) THEN Strip(SubSeq(s, 1, Len(s) - 1))
    ELSE s

\* str.count(c) for one character
Count(s, c) == Cardinality({ i \in DOMAIN s : s[i] = c })

\* str(n) for a natural number
Digits == <<"0", "1", "2", "3", "4", "5", "6", "7", "8", "9">>
RECURSIVE Str(_)
Str(n) == IF n < 10 THEN << Digits[n + 1] >>
          ELSE Str(n \div 10) \o << Digits[(n % 10) + 1] >>

Medium == <<"M", "E", "D", "I", "U", "M">>

\* issue_patterns, in the order of the dict
IssuePatterns ==
    << [pattern |->
            <<"e", "v", "a", "l", "(">>,
        severity |-> High,
        message |->
            <<"C", "o", "d", "e", " ", "i", "n", "j", "e", "c", "t", "i",
              "o", "n", " ", "v", "u", "l", "n", "e", "r", "a", "b", "i",
              "l", "i", "t", "y", " ", "d", "e", "t", "e", "c", "t", "e", "d">>],
       [pattern |->
            <<"e", "x", "e", "c", "(">>,
        severity |-> High,
        message |->
            <<"C", "o", "d", "e", " ", "e", "x", "e", "c", "u", "t", "i",
              "o", "n", " ", "v", "u", "l", "n", "e", "r", "a", "b", "i",
              "l", "i", "t", "y", " ", "d", "e", "t", "e", "c", "t", "e", "d">>],
       [pattern |->
            <<"s", "u", "b", "p", "r", "o", "c", "e", "s", "s", ".", "c",
              "a", "l", "l">>,
        severity |-> Medium,
        message |->
            <<"P", "o", "t", "e", "n", "t", "i", "a", "l", " ", "c", "o",
              "m", "m", "a", "n", "d", " ", "i", "n", "j", "e", "c", "t",
              "i", "o", "n", " ", "r", "i", "s", "k">>],
       [pattern |->
            <<"p", "a", "s", "s", "w", "o", "r", "d">>,
        severity |-> High,
        message |->
            <<"H", "a", "r", "d", "c", "o", "d", "e", "d", " ", "c", "r",
              "e", "d", "e", "n", "t", "i", "a", "l", "s", " ", "d", "e",
              "t", "e", "c", "t", "e", "d">>],
       [pattern |->
            <<"a", "p", "i", "_", "k", "e", "y">>,
        severity |-> High,
        message |->
            <<"H", "a", "r", "d", "c", "o", "d", "e", "d", " ", "A", "P",
              "I", " ", "k", "e", "y", " ", "d", "e", "t", "e", "c", "t",
              "e", "d">>],
       [pattern |->
            <<"T", "O", "D", "O">>,
        severity |-> Low,
        message |->
            <<"I", "n", "c", "o", "m", "p", "l", "e", "t", "e", " ", "i",
              "m", "p", "l", "e", "m", "e", "n", "t", "a", "t", "i", "o", "n">>],
       [pattern |->
            <<"F", "I", "X", "M", "E">>,
        severity |-> Medium,
        message |->
            <<"C", "o", "d", "e", " ", "n", "e", "e", "d", "s", " ", "f",
              "i", "x", "i", "n", "g">>],
       [pattern |->
            <<"p", "r", "i", "n", "t", "(">>,
        severity |-> Low,
        message |->
            <<"D", "e", "b", "u", "g", " ", "s", "t", "a", "t", "e", "m",
              "e", "n", "t", " ", "s", "h", "o", "u", "l", "d", " ", "b",
              "e", " ", "r", "e", "m", "o", "v", "e", "d">>],
       [pattern |->
            <<"c", "o", "n", "s", "o", "l", "e", ".", "l", "o", "g">>,
        severity |-> Low,
        message |->
            <<"D", "e", "b", "u", "g", " ", "s", "t", "a", "t", "e", "m",
              "e", "n", "t", " ", "s", "h", "o", "u", "l", "d", " ", "b",
              "e", " ", "r", "e", "m", "o", "v", "e", "d">>],
       [pattern |->
            <<"d", "e", "f", " ">>,
        severity |-> Low,
        message |->
            <<"C", "o", "n", "s", "i", "d", "e", "r", " ", "a", "d", "d",
              "i", "n", "g", " ", "t", "y", "p", "e", " ", "h", "i", "n",
              "t", "s", " ", "a", "n", "d", " ", "d", "o", "c", "s", "t",
              "r", "i", "n", "g">>],
       [pattern |->
            <<"c", "l", "a", "s", "s", " ">>,
        severity |-> Low,
        message |->
            <<"C", "o", "n", "s", "i", "d", "e", "r", " ", "a", "d", "d",
              "i", "n", "g", " ", "d", "o", "c", "s", "t", "r", "i", "n",
              "g", " ", "f", "o", "r", " ", "n", "e", "w", " ", "c", "l",
              "a", "s", "s">>] >>

MockImpact ==
    <<"T", "h", "i", "s", " ", "c", "o", "u", "l", "d", " ", "c", "a", "u",
      "s", "e", " ", "i", "s", "s", "u", "e", "s", " ", "i", "n", " ", "p",
      "r", "o", "d", "u", "c", "t", "i", "o", "n">>
MockFix ==
    <<"C", "o", "n", "s", "i", "d", "e", "r", " ", "r", "e", "f", "a", "c",
      "t", "o", "r", "i", "n", "g", " ", "t", "h", "i", "s", " ", "c", "o",
      "d", "e", " ", "f", "o", "r", " ", "b", "e", "t", "t", "e", "r", " ",
      "p", "r", "a", "c", "t", "i", "c", "e", "s">>
DiffGit == <<"d", "i", "f", "f", " ", "-", "-", "g", "i", "t">>
AtAt == <<"@", "@">>
BSlash == <<"b", "/">>
MockPrefix ==
    <<"M", "o", "c", "k", " ", "T", "e", "c", "h", "n", "i", "c", "a", "l",
      " ", "R", "e", "v", "i", "e", "w", " ", "(", "O", "p", "e", "n", "A",
      "I", ")", ":", " ">>
MockAdditions ==
    <<" ", "a", "d", "d", "i", "t", "i", "o", "n", "s", ",", " ">>
MockDeletions ==
    <<" ", "d", "e", "l", "e", "t", "i", "o", "n", "s", ".", " ", "F", "o",
      "u", "n", "d", " ">>
MockIssues ==
    <<" ", "t", "e", "c", "h", "n", "i", "c", "a", "l", " ", "i", "s", "s",
      "u", "e", "s", ".">>

\* the string a file name spells: the findings and the file list carry file
\* names as strings, the diff carries them as characters
APyChars == <<"a", ".", "p", "y">>
BPyChars == <<"b", ".", "p", "y">>
TodoPyChars == <<"t", "o", "d", "o", ".", "p", "y">>
PathString(name) ==
    CASE name = APyChars -> "a.py"
      [] name = BPyChars -> "b.py"
      [] name = TodoPyChars -> "todo.py"
      [] OTHER -> "?"

\* current_file after a 'diff --git' line: parts[3] without its 'b/'
FileOfHeader(line, current_file) ==
    LET parts == SplitAt(line, 1, Empty, " ")
    IN  IF Len(parts) >= 4
        THEN IF StartsWith(parts[4], BSlash)
             THEN SubSeq(parts[4], 3, Len(parts[4]))
             ELSE parts[4]
        ELSE current_file

\* the first pattern of issue_patterns with pattern.lower() in line.lower(),
\* 0 when there is none
FirstPattern(line) ==
    LET hits == { k \in DOMAIN IssuePatterns :
                     Contains(Lower(line), Lower(IssuePatterns[k].pattern)) }
    IN  IF hits = {} THEN 0
        ELSE CHOOSE k \in hits : \A h \in hits : k <= h

\* the dict appended to mock_comments
MockComment(current_file, current_new_line, line) ==
    [file |-> PathString(current_file),
     line |-> current_new_line,
     code_snippet |-> Strip(Tail(line)),
     severity |-> IssuePatterns[FirstPattern(line)].severity,
     issue |-> IssuePatterns[FirstPattern(line)].message,
     impact |-> MockImpact,
     fix |-> MockFix]

\* line.startswith('+') and current_file
MockTakesPlus(line, current_file) ==
    /\ StartsWith(line, <<"+">>)
    /\ current_file # None
    /\ current_file # Empty

\* The loop of _mock_review_diff from its i-th line on, with the locals as
\* they are before that line; the value is mock_comments after the loop.
RECURSIVE MockScan(_, _, _, _, _)
MockScan(lines, i, current_file, current_new_line, mock_comments) ==
    IF i > Len(lines) THEN mock_comments
    ELSE LET line == lines[i] IN
        IF StartsWith(line, DiffGit)
        THEN MockScan(lines, i + 1, FileOfHeader(line, current_file), 0,
                      mock_comments)
        ELSE IF StartsWith(line, AtAt)
        THEN MockScan(lines, i + 1, current_file,
                      IF HunkMatch(line) THEN HunkNewStart(line) - 1
                      ELSE current_new_line,
                      mock_comments)
        ELSE IF MockTakesPlus(line, current_file)
        THEN MockScan(lines, i + 1, current_file, current_new_line + 1,
                      IF FirstPattern(line) # 0
                      THEN Append(mock_comments,
                                  MockComment(current_file,
                                              current_new_line + 1, line))
                      ELSE mock_comments)
        ELSE IF StartsWith(line, <<"-">>)
        THEN MockScan(lines, i + 1, current_file, current_new_line,
                      mock_comments)
        ELSE IF StartsWith(line, <<" ">>)
        THEN MockScan(lines, i + 1, current_file, current_new_line + 1,
                      mock_comments)
        ELSE MockScan(lines, i + 1, current_file, current_new_line,
                      mock_comments)

\* _mock_review_diff(diff_content, context), settings.is_azure_openai unset
MockReviewDiff(diff) ==
    LET mock_comments == MockScan(Split(diff), 1, None, 0, << >>)
    IN  [overall_review |->
             MockPrefix \o Str(Count(diff, "+")) \o MockAdditions
                 \o Str(Count(diff, "-")) \o MockDeletions
                 \o Str(Len(mock_comments)) \o MockIssues,
         line_comments |-> mock_comments]


\* Diffs for _mock_review_diff: per file the four lines git writes ahead of
\* the hunks, then up to MaxDiffLines lines: hunk headers, added lines with
\* and without a pattern, a context line and a removed line.  The file is
\* a.py or todo.py, whose name holds the pattern 'TODO'; a diff may also be
\* the lines without the file lines, or two files one after the other.
AddedEval == <<"+", "e", "v", "a", "l", "(", "x", ")">>
AddedTodo == <<"+", "#", " ", "T", "O", "D", "O">>
DiffGitA ==
    <<"d", "i", "f", "f", " ", "-", "-", "g", "i", "t", " ", "a", "/">>
SpaceB == <<" ", "b", "/">>
IndexLine ==
    <<"i", "n", "d", "e", "x", " ", "1", ".", ".", "2", " ", "1", "0", "0",
      "6", "4", "4">>
MinusA == <<"-", "-", "-", " ", "a", "/">>
PlusB == <<"+", "+", "+", " ", "b", "/">>

FileLines(name) ==
    << DiffGitA \o name \o SpaceB \o name, IndexLine, MinusA \o name,
       PlusB \o name >>

MockBodyLines ==
    {HeaderAt1, HeaderAt3, AddedX, AddedEval, AddedTodo, ContextX, RemovedX}
MockBodies == UNION { [1..n -> MockBodyLines] : n \in 0..MaxDiffLines }

SampleDiffs ==
    { Join(body) : body \in MockBodies \ {<< >>} }
        \cup { Join(FileLines(name) \o body) :
                   name \in {APyChars, TodoPyChars}, body \in MockBodies }
        \cup { Join(FileLines(APyChars) \o <<HeaderAt1, l1>>
                        \o FileLines(TodoPyChars) \o <<HeaderAt3, l2>>) :
                   l1 \in {AddedX, AddedEval}, l2 \in {AddedTodo, ContextX} }


\* --------------------------------------------------------------- the state
VARIABLES
    op,                 \* the method the caller invokes
    file_data,          \* _calculate_position: argument file_data
    target_line,        \* _calculate_position: argument target_line
    patch_lines,        \* local: file_data["patch"].split('\n')
    idx,                \* how many elements the for loop has taken
    position,           \* local
    current_new_line,   \* local
    found_hunk,         \* local
    pc,                 \* "idle", "scan" (inside the loop) or "done" (returned)
    result,             \* the value returned by the last call
    returned,           \* the values returned so far for (file_data, target_line)
    ai_review_result,   \* create_inline_comments: argument ai_review_result
    pr_files,           \* create_inline_comments: argument pr_files
    line_comments,      \* local
    file_map,           \* local
    taken,              \* how many findings the for loop has taken
    comments,           \* local, and the value returned
    bpc,                \* "idle", "loop", "done" (returned) or "raised"
    code_snippet_arg,   \* _detect_language: argument code_snippet
    language,           \* _detect_language: the value returned
    webhook_secret,     \* the service's field self.webhook_secret
    payload_body,       \* verify_webhook_signature: argument payload_body
    signature_header,   \* verify_webhook_signature: argument signature_header
    verified,           \* verify_webhook_signature: the value returned
    cpc,                \* either call: "idle", "returned" or "raised"
    token,              \* the service's field self.token
    ai_enabled,         \* self.client and settings.openai_enabled
    hook,               \* github_webhook: its locals, what it sent, its response
    diff_content,       \* _mock_review_diff: argument diff_content
    review_result,      \* _mock_review_diff: the value returned
    threads             \* the calls that run side by side on the one service

scanVars ==
    << file_data, target_line, patch_lines, idx, position, current_new_line,
       found_hunk, pc, result, returned >>
buildVars ==
    << ai_review_result, pr_files, line_comments, file_map, taken, comments, bpc >>
callVars ==
    << code_snippet_arg, language, webhook_secret, payload_body,
       signature_header, verified, cpc >>
\* the webhook request, review_pr_diff, and the calls that run side by side
extVars ==
    << token, ai_enabled, hook, diff_content, review_result, threads >>
vars == << op, scanVars, buildVars, callVars, extVars >>

InitScan ==
    /\ op = "_calculate_position"
    /\ \E input \in ScanInputs :
           /\ file_data = input[1]
           /\ target_line = input[2]
    /\ ai_review_result = [overall_review |-> "ok"]
    /\ pr_files = << >>

InitBuild ==
    /\ op = "create_inline_comments"
    /\ file_data = [filename |-> ""]
    /\ target_line = 0
    /\ ai_review_result \in SampleResults
    /\ pr_files \in SampleFileLists

\* no call has begun: the locals of the two methods
LocalsIdle ==
    /\ patch_lines = << >>
    /\ idx = 0
    /\ position = 0
    /\ current_new_line = 0
    /\ found_hunk = FALSE
    /\ pc = "idle"
    /\ result = 0
    /\ returned = << >>
    /\ line_comments = << >>
    /\ file_map = << >>
    /\ taken = 0
    /\ comments = << >>
    /\ bpc = "idle"

\* no call of _detect_language or verify_webhook_signature
CallIdle ==
    /\ code_snippet_arg = Empty
    /\ language = Empty
    /\ webhook_secret = None
    /\ payload_body = Empty
    /\ signature_header = Empty
    /\ verified = FALSE
    /\ cpc = "idle"

\* no webhook request, no call of review_pr_diff, no calls side by side
ExtIdle ==
    /\ token = None
    /\ ai_enabled = FALSE
    /\ hook = [pc |-> "idle"]
    /\ diff_content = Empty
    /\ review_result = [overall_review |-> Empty, line_comments |-> << >>]
    /\ threads = << >>

Init ==
    /\ InitScan \/ InitBuild
    /\ LocalsIdle
    /\ CallIdle
    /\ ExtIdle

\* no argument of _calculate_position or create_inline_comments
NoArguments ==
    /\ file_data = [filename |-> ""]
    /\ target_line = 0
    /\ ai_review_result = [overall_review |-> "ok"]
    /\ pr_files = << >>

\* create_inline_comments on one finding of FormatFindings
InitFormat ==
    /\ op = "create_inline_comments"
    /\ file_data = [filename |-> ""]
    /\ target_line = 0
    /\ ai_review_result \in FormatResults
    /\ pr_files = <<FileA, FileB>>
    /\ LocalsIdle
    /\ CallIdle
    /\ ExtIdle

InitDetect ==
    /\ op = "_detect_language"
    /\ NoArguments
    /\ LocalsIdle
    /\ code_snippet_arg \in SampleSnippets
    /\ language = Empty
    /\ webhook_secret = None
    /\ payload_body = Empty
    /\ signature_header = Empty
    /\ verified = FALSE
    /\ cpc = "idle"
    /\ ExtIdle

\* self.webhook_secret = settings.GITHUB_WEBHOOK_SECRET, then a call
InitVerify ==
    /\ op = "verify_webhook_signature"
    /\ NoArguments
    /\ LocalsIdle
    /\ code_snippet_arg = Empty
    /\ language = Empty
    /\ webhook_secret \in SampleSecrets
    /\ payload_body \in SamplePayloads
    /\ signature_header \in SampleHeaders
    /\ verified = FALSE
    /\ cpc = "idle"
    /\ ExtIdle

\* -------------------------------------------------- _calculate_position
\* return v
Return(v) ==
    /\ pc' = "done"
    /\ result' = v
    /\ returned' = Append(returned, v)

CanCall ==
    /\ op = "_calculate_position"
    /\ pc \in {"idle", "done"}
    /\ Len(returned) < MaxCalls

\* if "patch" not in file_data: return 0
CallNoPatch ==
    /\ CanCall
    /\ "patch" \notin DOMAIN file_data
    /\ Return(0)
    /\ UNCHANGED << op, callVars, extVars, file_data, target_line, patch_lines, idx, position,
                    current_new_line, found_hunk, buildVars >>

\* a call whose current_new_line is left over from the call before
CallWithPatch_StaleCounter ==
    /\ CanCall
    /\ "patch" \in DOMAIN file_data
    /\ patch_lines' = Split(file_data["patch"])
    /\ idx' = 0
    /\ position' = 0
    /\ found_hunk' = FALSE
    /\ pc' = "scan"
    /\ UNCHANGED << op, callVars, extVars, file_data, target_line, current_new_line, result,
                    returned, buildVars >>

\* patch_lines = ...split('\n'); position = 0; current_new_line = 0;
\* found_hunk = False
CallWithPatch ==
    /\ CanCall
    /\ "patch" \in DOMAIN file_data
    /\ patch_lines' = Split(file_data["patch"])
    /\ idx' = 0
    /\ position' = 0
    /\ current_new_line' = 0
    /\ found_hunk' = FALSE
    /\ pc' = "scan"
    /\ UNCHANGED << op, callVars, extVars, file_data, target_line, result, returned, buildVars >>

\* for line in patch_lines: the loop takes its next element
HasNext == pc = "scan" /\ idx < Len(patch_lines)
NextLine == patch_lines[idx + 1]

\* line.startswith('@@') and the pattern matches
HunkHeader ==
    /\ HasNext
    /\ IsHeaderLine(NextLine) /\ HunkMatch(NextLine)
    /\ idx' = idx + 1
    /\ position' = position + 1
    /\ current_new_line' = HunkNewStart(NextLine) - 1
    /\ found_hunk' = TRUE
    /\ UNCHANGED << op, callVars, extVars, file_data, target_line, patch_lines, pc, result,
                    returned, buildVars >>

\* an unparsable header that restarts the numbering
HunkHeaderUnparsed_Resets ==
    /\ HasNext
    /\ IsHeaderLine(NextLine) /\ ~HunkMatch(NextLine)
    /\ idx' = idx + 1
    /\ position' = position + 1
    /\ current_new_line' = 0
    /\ UNCHANGED << op, callVars, extVars, file_data, target_line, patch_lines, found_hunk, pc,
                    result, returned, buildVars >>

\* an unparsable header that is skipped before it is counted
HunkHeaderUnparsed_NotCounted ==
    /\ HasNext
    /\ IsHeaderLine(NextLine) /\ ~HunkMatch(NextLine)
    /\ idx' = idx + 1
    /\ UNCHANGED << op, callVars, extVars, file_data, target_line, patch_lines, position,
                    current_new_line, found_hunk, pc, result, returned,
                    buildVars >>

\* line.startswith('@@') and the pattern does not match: continue
HunkHeaderUnparsed ==
    /\ HasNext
    /\ IsHeaderLine(NextLine) /\ ~HunkMatch(NextLine)
    /\ idx' = idx + 1
    /\ position' = position + 1
    /\ UNCHANGED << op, callVars, extVars, file_data, target_line, patch_lines, current_new_line,
                    found_hunk, pc, result, returned, buildVars >>

\* an added line that is compared before the counter is incremented
AddedLine_CompareFirst ==
    /\ HasNext
    /\ IsPlusLine(NextLine)
    /\ idx' = idx + 1
    /\ position' = position + 1
    /\ current_new_line' = current_new_line + 1
    /\ IF current_new_line = target_line
       THEN Return(position + 1)
       ELSE UNCHANGED << pc, result, returned >>
    /\ UNCHANGED << op, callVars, extVars, file_data, target_line, patch_lines, found_hunk,
                    buildVars >>

\* an added line whose match does not end the scan
AddedLine_NoReturn ==
    /\ HasNext
    /\ IsPlusLine(NextLine)
    /\ idx' = idx + 1
    /\ position' = position + 1
    /\ current_new_line' = current_new_line + 1
    /\ UNCHANGED << op, callVars, extVars, file_data, target_line, patch_lines, found_hunk, pc,
                    result, returned, buildVars >>

\* elif line.startswith('+'): current_new_line += 1, and return position when
\* it equals target_line
AddedLine ==
    /\ HasNext
    /\ IsPlusLine(NextLine)
    /\ idx' = idx + 1
    /\ position' = position + 1
    /\ current_new_line' = current_new_line + 1
    /\ IF current_new_line + 1 = target_line
       THEN Return(position + 1)
       ELSE UNCHANGED << pc, result, returned >>
    /\ UNCHANGED << op, callVars, extVars, file_data, target_line, patch_lines, found_hunk,
                    buildVars >>

\* a removed line that advances the counter
RemovedLine_Counts ==
    /\ HasNext
    /\ IsMinusLine(NextLine)
    /\ idx' = idx + 1
    /\ position' = position + 1
    /\ current_new_line' = current_new_line + 1
    /\ UNCHANGED << op, callVars, extVars, file_data, target_line, patch_lines, found_hunk, pc,
                    result, returned, buildVars >>

\* elif line.startswith('-'): pass
RemovedLine ==
    /\ HasNext
    /\ IsMinusLine(NextLine)
    /\ idx' = idx + 1
    /\ position' = position + 1
    /\ UNCHANGED << op, callVars, extVars, file_data, target_line, patch_lines, current_new_line,
                    found_hunk, pc, result, returned, buildVars >>

\* a context line that is compared with the target like an added line
ContextLine_Matches ==
    /\ HasNext
    /\ IsSpaceLine(NextLine)
    /\ idx' = idx + 1
    /\ position' = position + 1
    /\ current_new_line' = current_new_line + 1
    /\ IF current_new_line + 1 = target_line
       THEN Return(position + 1)
       ELSE UNCHANGED << pc, result, returned >>
    /\ UNCHANGED << op, callVars, extVars, file_data, target_line, patch_lines, found_hunk,
                    buildVars >>

\* elif line.startswith(' '): current_new_line += 1
ContextLine ==
    /\ HasNext
    /\ IsSpaceLine(NextLine)
    /\ idx' = idx + 1
    /\ position' = position + 1
    /\ current_new_line' = current_new_line + 1
    /\ UNCHANGED << op, callVars, extVars, file_data, target_line, patch_lines, found_hunk, pc,
                    result, returned, buildVars >>

\* any other line advancing the counter like a context line
OtherLine_Counts ==
    /\ HasNext
    /\ IsOtherLine(NextLine)
    /\ idx' = idx + 1
    /\ position' = position + 1
    /\ current_new_line' = current_new_line + 1
    /\ UNCHANGED << op, callVars, extVars, file_data, target_line, patch_lines, found_hunk, pc,
                    result, returned, buildVars >>

\* no branch of the chain applies: only position += 1 has run
OtherLine ==
    /\ HasNext
    /\ IsOtherLine(NextLine)
    /\ idx' = idx + 1
    /\ position' = position + 1
    /\ UNCHANGED << op, callVars, extVars, file_data, target_line, patch_lines, current_new_line,
                    found_hunk, pc, result, returned, buildVars >>

\* the loop is exhausted: return 0
LoopExit ==
    /\ pc = "scan" /\ idx = Len(patch_lines)
    /\ Return(0)
    /\ UNCHANGED << op, callVars, extVars, file_data, target_line, patch_lines, idx, position,
                    current_new_line, found_hunk, buildVars >>

\* ------------------------------------------------- create_inline_comments
\* the first entry of a name is kept
FileMap_FirstWins(files) ==
    [n \in { files[i]["filename"] : i \in DOMAIN files } |->
        LET first == CHOOSE i \in DOMAIN files :
                         /\ files[i]["filename"] = n
                         /\ \A j \in DOMAIN files :
                                files[j]["filename"] = n => i <= j
        IN  files[first]]

\* file_map = {f["filename"]: f for f in pr_files}: a later entry replaces an
\* earlier one of the same name
FileMap(files) ==
    [n \in { files[i]["filename"] : i \in DOMAIN files } |->
        LET last == CHOOSE i \in DOMAIN files :
                        /\ files[i]["filename"] = n
                        /\ \A j \in DOMAIN files :
                               files[j]["filename"] = n => j <= i
        IN  files[last]]

\* not file_path or not line_number, on the values of .get("file") and
\* .get("line"): None (the key is absent), "" and 0 are the false values
MissingFileOrLine(cd) ==
    \/ Get(cd, "file", "") = ""
    \/ Get(cd, "line", 0) = 0

\* comments = []; line_comments = ai_review_result.get("line_comments", []);
\* file_map = {...}
BuildCall ==
    /\ op = "create_inline_comments"
    /\ bpc = "idle"
    /\ comments' = << >>
    /\ line_comments' = Get(ai_review_result, "line_comments", << >>)
    /\ file_map' = FileMap(pr_files)
    /\ taken' = 0
    /\ bpc' = "loop"
    /\ UNCHANGED << op, callVars, extVars, scanVars, ai_review_result, pr_files >>

\* for comment_data in line_comments: the loop takes its next element
HasFinding == bpc = "loop" /\ taken < Len(line_comments)
comment_data == line_comments[taken + 1]

\* the finding is passed over: continue
Drop ==
    /\ taken' = taken + 1
    /\ UNCHANGED << op, callVars, extVars, scanVars, ai_review_result, pr_files, line_comments,
                    file_map, comments, bpc >>

\* comment_data.get("file") on a finding that is not a dict: AttributeError
RaiseAttributeError ==
    /\ HasFinding
    /\ ~IsDict(comment_data)
    /\ bpc' = "raised"
    /\ UNCHANGED << op, callVars, extVars, scanVars, ai_review_result, pr_files,
                    line_comments, file_map, taken, comments >>

\* a finding without "file" or "line" raises, as comment_data["file"] would
DropMissingField_Raises ==
    /\ HasFinding
    /\ IsDict(comment_data)
    /\ MissingFileOrLine(comment_data)
    /\ bpc' = "raised"
    /\ UNCHANGED << op, callVars, extVars, scanVars, ai_review_result, pr_files,
                    line_comments, file_map, taken, comments >>

\* if not file_path or not line_number: continue
DropMissingField ==
    /\ HasFinding
    /\ IsDict(comment_data)
    /\ MissingFileOrLine(comment_data)
    /\ Drop

\* if file_path not in file_map: continue
DropUnknownFile ==
    /\ HasFinding
    /\ ~MissingFileOrLine(comment_data)
    /\ comment_data["file"] \notin DOMAIN file_map
    /\ Drop

\* position = self._calculate_position(...); if position <= 0: continue
DropUnresolved ==
    /\ HasFinding
    /\ ~MissingFileOrLine(comment_data)
    /\ comment_data["file"] \in DOMAIN file_map
    /\ CalculatePosition(file_map[comment_data["file"]], comment_data["line"]) <= 0
    /\ Drop

\* message = self._format_comment_message(...); if not message: continue
DropEmptyMessage ==
    /\ HasFinding
    /\ ~MissingFileOrLine(comment_data)
    /\ comment_data["file"] \in DOMAIN file_map
    /\ CalculatePosition(file_map[comment_data["file"]], comment_data["line"]) > 0
    /\ FormatCommentMessage(comment_data) = Empty
    /\ Drop

\* a position counted on from the comments made before
NewComment_CountsEarlierComments ==
    [body |-> FormatCommentMessage(comment_data),
     path |-> comment_data["file"],
     position |-> Len(comments)
                      + CalculatePosition(file_map[comment_data["file"]],
                                          comment_data["line"])]

\* ReviewComment(body=message, path=file_path, position=position)
NewComment ==
    [body |-> FormatCommentMessage(comment_data),
     path |-> comment_data["file"],
     position |-> CalculatePosition(file_map[comment_data["file"]],
                                    comment_data["line"])]

CanEmit ==
    /\ HasFinding
    /\ ~MissingFileOrLine(comment_data)
    /\ comment_data["file"] \in DOMAIN file_map
    /\ CalculatePosition(file_map[comment_data["file"]], comment_data["line"]) > 0
    /\ FormatCommentMessage(comment_data) # Empty

\* a comment placed at the finding's line number, not at its diff position
EmitComment_AtLineNumber ==
    /\ CanEmit
    /\ comments' = Append(comments,
                          [NewComment EXCEPT !["position"] = comment_data["line"]])
    /\ taken' = taken + 1
    /\ UNCHANGED << op, callVars, extVars, scanVars, ai_review_result, pr_files,
                    line_comments, file_map, bpc >>

\* a comment put in front of the list instead of at its end
EmitComment_Prepends ==
    /\ CanEmit
    /\ comments' = << NewComment >> \o comments
    /\ taken' = taken + 1
    /\ UNCHANGED << op, callVars, extVars, scanVars, ai_review_result, pr_files, line_comments,
                    file_map, bpc >>

\* comments.append(comment)
EmitComment ==
    /\ CanEmit
    /\ comments' = Append(comments, NewComment)
    /\ taken' = taken + 1
    /\ UNCHANGED << op, callVars, extVars, scanVars, ai_review_result, pr_files, line_comments,
                    file_map, bpc >>

\* the loop is exhausted: return comments
BuildReturn ==
    /\ bpc = "loop" /\ taken = Len(line_comments)
    /\ bpc' = "done"
    /\ UNCHANGED << op, callVars, extVars, scanVars, ai_review_result, pr_files, line_comments,
                    file_map, taken, comments >>

\* create_inline_comments as a value, for its callers: a JSON value that is
\* no object has no .get, and neither has a finding that is no dict
IsJsonObject(v) ==
    ~Has(v, "py_str") /\ ~Has(v, "py_list") /\ ~Has(v, "py_int")

InlineRaises(review) ==
    \/ ~IsJsonObject(review)
    \/ \E i \in DOMAIN Get(review, "line_comments", << >>) :
           ~IsDict(review["line_comments"][i])

\* the comments appended for the findings from the i-th on
RECURSIVE CommentsFrom(_, _, _)
CommentsFrom(findings, i, map) ==
    IF i > Len(findings) THEN << >>
    ELSE LET cd == findings[i]
             rest == CommentsFrom(findings, i + 1, map)
         IN  IF MissingFileOrLine(cd) THEN rest
             ELSE IF cd["file"] \notin DOMAIN map THEN rest
             ELSE IF CalculatePosition(map[cd["file"]], cd["line"]) <= 0
             THEN rest
             ELSE IF FormatCommentMessage(cd) = Empty THEN rest
             ELSE << [body |-> FormatCommentMessage(cd),
                      path |-> cd["file"],
                      position |-> CalculatePosition(map[cd["file"]],
                                                     cd["line"])] >> \o rest

InlineComments(review, files) ==
    CommentsFrom(Get(review, "line_comments", << >>), 1, FileMap(files))

\* ------------------------------------------------------- _detect_language
\* language = self._detect_language(code_snippet)
DetectLanguageCall ==
    /\ op = "_detect_language"
    /\ cpc = "idle"
    /\ language' = DetectLanguage(code_snippet_arg)
    /\ cpc' = "returned"
    /\ UNCHANGED << op, scanVars, buildVars, extVars, code_snippet_arg, webhook_secret,
                    payload_body, signature_header, verified >>

\* ------------------------------------------------ verify_webhook_signature
VerifyCall ==
    /\ op \in {"verify_webhook_signature", "github_webhook"}
    /\ cpc = "idle"

\* return v
VerifyReturn(v) ==
    /\ verified' = v
    /\ cpc' = "returned"
    /\ UNCHANGED << op, scanVars, buildVars, extVars, code_snippet_arg, language,
                    webhook_secret, payload_body, signature_header >>

\* a secret that is not configured rejects a request without a header
VerifySkip_RequiresHeader ==
    /\ VerifyCall
    /\ NoSecret(webhook_secret)
    /\ VerifyReturn(signature_header # Empty)

\* if not self.webhook_secret: return True
VerifySkip ==
    /\ VerifyCall
    /\ NoSecret(webhook_secret)
    /\ VerifyReturn(TRUE)

\* return hmac.compare_digest(expected_signature, signature_header)
VerifyCompare ==
    /\ VerifyCall
    /\ ~NoSecret(webhook_secret)
    /\ IsAscii(signature_header)
    /\ VerifyReturn(ExpectedSignature(webhook_secret, payload_body)
                        = signature_header)

\* hmac.compare_digest raises TypeError: the header is not ASCII
VerifyTypeError ==
    /\ VerifyCall
    /\ ~NoSecret(webhook_secret)
    /\ ~IsAscii(signature_header)
    /\ cpc' = "raised"
    /\ UNCHANGED << op, scanVars, buildVars, extVars, code_snippet_arg, language,
                    webhook_secret, payload_body, signature_header, verified >>

\* ------------------------------------------------------- the specification
Next ==
    \/ CallNoPatch
    \/ CallWithPatch
    \/ HunkHeader
    \/ HunkHeaderUnparsed
    \/ AddedLine
    \/ RemovedLine
    \/ ContextLine
    \/ OtherLine
    \/ LoopExit
    \/ BuildCall
    \/ RaiseAttributeError
    \/ DropMissingField
    \/ DropUnknownFile
    \/ DropUnresolved
    \/ DropEmptyMessage
    \/ EmitComment
    \/ BuildReturn

Spec == Init /\ [][Next]_vars

\* create_inline_comments alone, on the findings of FormatFindings
NextFormat ==
    \/ BuildCall
    \/ RaiseAttributeError
    \/ DropMissingField
    \/ DropUnknownFile
    \/ DropUnresolved
    \/ DropEmptyMessage
    \/ EmitComment
    \/ BuildReturn

SpecFormat == InitFormat /\ [][NextFormat]_vars

\* _detect_language alone
NextDetect == DetectLanguageCall

SpecDetect == InitDetect /\ [][NextDetect]_vars

\* verify_webhook_signature alone
NextVerify ==
    \/ VerifySkip
    \/ VerifyCompare
    \/ VerifyTypeError

SpecVerify == InitVerify /\ [][NextVerify]_vars

\* ------------------------------------------------------------- properties
Max(S) == CHOOSE x \in S : \A y \in S : y <= x
Min(S) == CHOOSE x \in S : \A y \in S : x <= y

\* The lines of the patch handed to _calculate_position.
PatchLines == Split(file_data["patch"])

\* The new-file line number a complete scan carries after the i-th line, in
\* closed form: the last header before it that parses gives (new start - 1),
\* and every line after that header that begins with "+" or " " adds one.
LastParsedHeader(lines, i) ==
    LET H == { j \in 1..i : IsHeaderLine(lines[j]) /\ HunkMatch(lines[j]) }
    IN  IF H = {} THEN 0 ELSE Max(H)

RunningNewLine(lines, i) ==
    LET h == LastParsedHeader(lines, i)
        base == IF h = 0 THEN 0 ELSE HunkNewStart(lines[h]) - 1
    IN  base + Cardinality({ j \in (h + 1)..i :
                \/ StartsWith(lines[j], <<"+">>)
                \/ StartsWith(lines[j], <<" ">>) })

\* The added lines of the patch that carry the target line number.
MatchingLines ==
    LET lines == PatchLines IN
    { i \in 1..Len(lines) :
        /\ IsPlusLine(lines[i])
        /\ RunningNewLine(lines, i) = target_line }

C2_FileMarkerNotAdded ==
    [][ (HasNext /\ StartsWith(NextLine, <<"+", "+", "+">>)) =>
            (current_new_line' = current_new_line /\ pc' = "scan") ]_vars

\* C3: the new-file line counter is 0 when the scan starts; a step over an
\* added line or a context line adds exactly 1, a step over a removed line
\* leaves it, and a step over a header that parses sets it to (new start - 1).
C3_CounterBookkeeping ==
    /\ [](pc = "scan" /\ idx = 0 => current_new_line = 0)
    /\ [][ HasNext =>
            /\ (IsHeaderLine(NextLine) /\ HunkMatch(NextLine)
                    => current_new_line' = HunkNewStart(NextLine) - 1)
            /\ (IsPlusLine(NextLine) \/ IsSpaceLine(NextLine)
                    => current_new_line' = current_new_line + 1)
            /\ (IsMinusLine(NextLine)
                    => current_new_line' = current_new_line) ]_vars

\* C3 witness: the header with new start 3, a removed line and an added line
\* have been visited, and the counter stands at 3.
C3_Witness ==
    /\ pc = "scan" /\ idx = 3 /\ current_new_line = 3
    /\ patch_lines = << HeaderAt3, RemovedX, AddedX >>

\* C4 as stated: every line that is not a hunk header, not an added line and
\* not a removed line adds 1 to the new-file line counter.
C4_EveryOtherLineCounts ==
    [][ (/\ HasNext
         /\ ~IsHeaderLine(NextLine)
         /\ ~IsPlusLine(NextLine)
         /\ ~IsMinusLine(NextLine))
            => current_new_line' = current_new_line + 1 ]_vars

\* C4 as amended: a line with a leading space adds 1 to the new-file line
\* counter; a line that is neither a header nor begins with "+", "-" or " "
\* (an empty line, a "\ No newline at end of file" line) leaves it unchanged.
C4_OnlySpaceLinesCount ==
    [][ HasNext =>
            /\ (IsSpaceLine(NextLine)
                    => current_new_line' = current_new_line + 1)
            /\ (IsOtherLine(NextLine)
                    => current_new_line' = current_new_line) ]_vars

\* C4 witness: a context line, then an empty line and a "\ No newline" line
\* have been visited, and the counter stands at 1.
C4_Witness ==
    /\ pc = "scan" /\ idx = 3 /\ current_new_line = 1
    /\ patch_lines = << ContextX, Empty, NoNewline >>

\* C5: a step over a line that begins with "@@" and does not match the header
\* pattern adds 1 to position and leaves the new-file line counter as it was.
C5_UnparsedHeaderKeepsCounter ==
    [][ (HasNext /\ IsHeaderLine(NextLine) /\ ~HunkMatch(NextLine)) =>
            /\ position' = position + 1
            /\ current_new_line' = current_new_line
            /\ pc' = "scan" ]_vars

\* C5 witness: after the header with new start 3 and an unparsable header, the
\* added line behind them is numbered 3.
C5_Witness ==
    /\ pc = "done" /\ result = 3 /\ target_line = 3 /\ current_new_line = 3
    /\ patch_lines = << HeaderAt3, HeaderBad, AddedX >>

\* C6: position is the number of patch lines the loop has visited, whatever
\* their kind; it is 0 when the scan of a patch starts and never exceeds the
\* number of lines.
C6_PositionCountsLines ==
    /\ position = idx
    /\ position <= Len(patch_lines)
    /\ (pc = "scan" /\ idx = 0 => position = 0)

\* C6 witness: an unparsable header, a removed line and an empty line have
\* been visited and position is 3.
C6_Witness ==
    /\ pc = "scan" /\ position = 3
    /\ patch_lines = << HeaderBad, RemovedX, Empty >>

\* C7: every value _calculate_position returns is 0 or lies between 1 and the
\* number of lines of the patch, and a repeated call with the same patch and
\* target returns the value the first call returned.
NumLines == IF "patch" \in DOMAIN file_data THEN Len(PatchLines) ELSE 0

C7_RangeAndRepeatable ==
    pc = "done" =>
        \A k \in DOMAIN returned :
            /\ returned[k] \in 0..NumLines
            /\ returned[k] = returned[1]

\* C7 witness: two calls have returned, both a non-zero position.
C7_Witness ==
    /\ Len(returned) >= 2 /\ returned[1] > 0 /\ returned[2] > 0

\* C8: on the worked example the result is 3 for target 2, 5 for target 4,
\* and 0 for targets 1, 3 and 99.
C8_WorkedExample ==
    (pc = "done" /\ file_data = ExampleFile) =>
        result = (CASE target_line = 2 -> 3
                    [] target_line = 4 -> 5
                    [] OTHER -> 0)

\* C8 witness: the example was scanned for target 4 and gave 5.
C8_Witness ==
    file_data = ExampleFile /\ pc = "done" /\ target_line = 4 /\ result = 5

\* C9: when added lines of the patch carry the target line number, the result
\* is the smallest of their positions.
C9_FirstMatchWins ==
    (pc = "done" /\ "patch" \in DOMAIN file_data) =>
        LET M == MatchingLines IN M # {} => result = Min(M)

\* C9 witness: two added lines of the patch carry the target number and the
\* call has returned.
C9_Witness ==
    /\ pc = "done" /\ "patch" \in DOMAIN file_data
    /\ Cardinality(MatchingLines) >= 2
    /\ result > 0

\* The comment that finding f yields against the file list, if it yields one.
Produces(f, c) ==
    /\ ~MissingFileOrLine(f)
    /\ f["file"] \in DOMAIN FileMap(pr_files)
    /\ c = [body |-> FormatCommentMessage(f),
            path |-> f["file"],
            position |-> CalculatePosition(FileMap(pr_files)[f["file"]], f["line"])]
    /\ c["position"] > 0
    /\ c["body"] # Empty

\* cs is matched, in order, by a subsequence of fs (each finding used once)
RECURSIVE Embeds(_, _)
Embeds(cs, fs) ==
    IF cs = << >> THEN TRUE
    ELSE IF fs = << >> THEN FALSE
    ELSE IF Produces(fs[1], cs[1]) THEN Embeds(Tail(cs), Tail(fs))
    ELSE Embeds(cs, Tail(fs))

\* C10: the comments built so far are, in order, the comments of a
\* subsequence of the findings taken so far: no comment without a finding, at
\* most one comment per finding, and the order of the findings is kept.
C10_OrderPreservingSubsequence ==
    (bpc \in {"loop", "done"}) =>
        /\ Len(comments) <= taken
        /\ Embeds(comments, SubSeq(line_comments, 1, taken))

\* C10 witness: of three findings the middle one was dropped and the other two
\* gave two different comments.
C10_Witness ==
    /\ bpc = "done" /\ Len(line_comments) = 3 /\ Len(comments) = 2
    /\ comments[1] # comments[2]
    /\ Produces(line_comments[1], comments[1])
    /\ Produces(line_comments[3], comments[2])
    /\ ~(\E c \in {comments[1], comments[2]} : Produces(line_comments[2], c))

\* The finding names a file of the list and its line resolves in a patch of
\* that name.
Resolves(f) ==
    /\ ~MissingFileOrLine(f)
    /\ \E j \in DOMAIN pr_files :
           /\ pr_files[j]["filename"] = f["file"]
           /\ CalculatePosition(pr_files[j], f["line"]) >= 1

\* C11: every comment built so far has a position of at least 1 and the path
\* of a file of the list, and comes from a finding taken so far that names
\* that file and whose line _calculate_position maps, on a patch of that file,
\* to the comment's position; there are no more comments than findings that
\* resolve, so a finding whose file is not in the list or whose line maps to
\* 0 gives none.
C11_CommentsComeFromResolvedFindings ==
    /\ \A k \in DOMAIN comments :
           /\ comments[k]["position"] >= 1
           /\ \E j \in DOMAIN pr_files :
                  /\ pr_files[j]["filename"] = comments[k]["path"]
                  /\ \E i \in 1..taken :
                         /\ Get(line_comments[i], "file", "") = comments[k]["path"]
                         /\ comments[k]["position"] =
                                CalculatePosition(pr_files[j],
                                                  Get(line_comments[i], "line", 0))
    /\ Len(comments) <=
           Cardinality({ i \in 1..taken : Resolves(line_comments[i]) })

\* C11 witness: of three findings one names a file that is not in the list and
\* one a context line; the third, on line 1, is placed at position 2.
C11_Witness ==
    /\ bpc = "done"
    /\ pr_files = <<FileA, FileB>>
    /\ line_comments = <<FUnknownFile, FStructured, FContext>>
    /\ Len(comments) = 1
    /\ comments[1]["path"] = "a.py"
    /\ comments[1]["position"] = 2

\* The comment a finding is turned into.
CommentFor(f) ==
    [body |-> FormatCommentMessage(f),
     path |-> f["file"],
     position |-> CalculatePosition(FileMap(pr_files)[f["file"]], f["line"])]

\* The comments of the findings of fs that are not in dropped, in order.
RECURSIVE BuiltFrom(_, _)
BuiltFrom(fs, dropped) ==
    IF fs = << >> THEN << >>
    ELSE (IF fs[1] \in dropped THEN << >> ELSE << CommentFor(fs[1]) >>)
            \o BuiltFrom(Tail(fs), dropped)

Findings == { line_comments[i] : i \in DOMAIN line_comments }

\* no "file", no "line", a file that is not in the list or has no patch, or a
\* line that does not resolve
Unplaceable(f) ==
    \/ MissingFileOrLine(f)
    \/ f["file"] \notin DOMAIN FileMap(pr_files)
    \/ CalculatePosition(FileMap(pr_files)[f["file"]], f["line"]) <= 0

EmptySnippet(f) == Get(f, "code_snippet", Empty) = Empty

\* C12 as claimed: when every finding is a dict the call does not raise, and
\* it returns the comments of the findings that are neither unplaceable nor
\* have an empty code_snippet, in order. Fails: a finding with an empty
\* code_snippet is kept.
C12_EmptySnippetDropped ==
    (\A f \in Findings : IsDict(f)) =>
        /\ bpc # "raised"
        /\ bpc = "done" =>
               comments = BuiltFrom(line_comments,
                   { f \in Findings : Unplaceable(f) \/ EmptySnippet(f) })

\* C12: the call raises only on a finding that is not a dict; otherwise it
\* returns (the empty list when there is no "line_comments") the comments, in
\* order, of the findings that are placeable and have a non-empty body. An
\* empty code_snippet alone does not drop a finding.
C12_DropsUnplaceableOrEmptyBody ==
    /\ bpc = "raised" => ~IsDict(line_comments[taken + 1])
    /\ bpc = "done" =>
           /\ comments = BuiltFrom(line_comments,
                  { f \in Findings :
                      Unplaceable(f) \/ FormatCommentMessage(f) = Empty })
           /\ ~Has(ai_review_result, "line_comments") => comments = << >>

\* C12 witness: a finding without "file" is dropped between two that are kept
\* in their order, the second of them without a code_snippet.
C12_Witness ==
    /\ bpc = "done"
    /\ pr_files = <<FileA, FileB>>
    /\ line_comments = <<FLegacy, FNoFile, FFallback>>
    /\ Len(comments) = 2
    /\ comments[1]["body"] = FormatCommentMessage(FLegacy)
    /\ comments[2]["body"] = SeverityLine(Suggestion, GenericMessage)

\* ------------------------------------------ properties of the comment body
\* The finding of a call on one finding, and what became of it.
Finding == ai_review_result["line_comments"][1]
Placed(f) == IsDict(f) /\ ~Unplaceable(f)
Emitted == Len(comments) = 1 /\ comments[1]["body"] # Empty
Body == IF comments = << >> THEN Empty ELSE comments[1]["body"]

Field(f, k) == Get(f, k, Empty)
IsStructured(f) == Has(f, "issue") \/ Has(f, "impact") \/ Has(f, "fix")
IsLegacy(f) == ~IsStructured(f) /\ Has(f, "message")
Without(f, k) == [x \in DOMAIN f \ {k} |-> f[x]]
EndsWith(s, k) ==
    Len(s) >= Len(k) /\ SubSeq(s, Len(s) - Len(k) + 1, Len(s)) = k
\* where k first occurs in s, 0 when it does not
IndexOf(s, k) ==
    IF Contains(s, k)
    THEN Min({ i \in 1..(Len(s) - Len(k) + 1) : SubSeq(s, i, i + Len(k) - 1) = k })
    ELSE 0

\* C13 as claimed: a placed finding with a non-empty issue, impact, fix,
\* message or code_snippet gets a non-empty body and a comment. Fails: a
\* finding with an empty "issue" and a non-empty "message" gets none.
C13_AnyUsableFieldGivesComment ==
    (bpc = "done" /\ Placed(Finding)) =>
        ((\E k \in {"issue", "impact", "fix", "message", "code_snippet"} :
              Field(Finding, k) # Empty)
            => FormatCommentMessage(Finding) # Empty /\ Emitted)

\* C13: a placed finding gets a non-empty body and a comment exactly when it
\* has a field that its own schema variant uses: always for a Legacy and a
\* Fallback finding, and for a Structured finding when its issue, impact, fix
\* or code_snippet is non-empty (its "message" is not used).
C13_FieldOfOwnVariantGivesComment ==
    (bpc = "done" /\ Placed(Finding)) =>
        /\ Emitted <=>
               (IsStructured(Finding) =>
                    \E k \in {"issue", "impact", "fix", "code_snippet"} :
                        Field(Finding, k) # Empty)
        /\ Emitted => comments[1]["body"] = FormatCommentMessage(Finding)
        /\ ~Emitted => comments = << >> /\ FormatCommentMessage(Finding) = Empty

\* C13 witness: a Structured finding whose only non-empty field is its
\* code_snippet got a comment.
C13_Witness ==
    /\ bpc = "done"
    /\ Finding = [file |-> "a.py", line |-> 1, issue |-> Empty,
                  code_snippet |-> DefF]
    /\ Emitted

\* C14: a placed finding with "issue" and "message" gets the body of the same
\* finding without "message", and the message text is not in it; a finding
\* with "message" and none of "issue", "impact", "fix" gets a body with the
\* message text and not the generic text of the Fallback rule.
C14_StructuredThenLegacyThenFallback ==
    (bpc = "done" /\ Placed(Finding)) =>
        /\ (Has(Finding, "issue") /\ Has(Finding, "message")) =>
               /\ Body = FormatCommentMessage(Without(Finding, "message"))
               /\ Finding["message"] # Empty => ~Contains(Body, Finding["message"])
        /\ IsLegacy(Finding) =>
               /\ Contains(Body, Finding["message"])
               /\ ~Contains(Body, GenericMessage)
        /\ (~IsStructured(Finding) /\ ~IsLegacy(Finding)) =>
               Contains(Body, GenericMessage)

\* C14 witness: a finding with an issue and a message got a comment that is the
\* severity-and-issue line alone.
C14_Witness ==
    /\ bpc = "done"
    /\ Finding = [file |-> "a.py", line |-> 1, issue |-> Risky,
                  message |-> UseEvalX]
    /\ Body = SeverityLine(Suggestion, Risky)

CodeMark ==
    Stars \o <<"C", "u", "r", "r", "e", "n", "t", " ", "c", "o", "d", "e", ":">>
        \o Stars \o <<NL>>
ImpactMark == Stars \o <<"I", "m", "p", "a", "c", "t", ":">> \o Stars \o <<" ">>
FixMark ==
    Stars \o <<"R", "e", "c", "o", "m", "m", "e", "n", "d", "e", "d", " ", "f", "i", "x", ":">>
        \o Stars \o <<" ">>

\* C15: the body of a placed Structured finding starts with the
\* severity-and-issue line exactly when the issue is non-empty, with
\* SUGGESTION as severity when the finding has none; it holds the code block,
\* the impact line and the fix line exactly when code_snippet, impact and fix
\* are non-empty, each after the parts listed before it, one per line and with
\* nothing else; with all four empty the body is empty and there is no comment.
C15_StructuredPartsInOrder ==
    (bpc = "done" /\ Placed(Finding) /\ IsStructured(Finding)) =>
        LET f == Finding
            severity == Get(f, "severity", Suggestion)
            issue == Field(f, "issue")
            impact == Field(f, "impact")
            fix == Field(f, "fix")
            code_snippet == Field(f, "code_snippet")
            p1 == SeverityLine(severity, issue)
            p2 == CodeMark \o Fence \o DetectLanguage(code_snippet) \o <<NL>>
                      \o code_snippet \o <<NL>> \o Fence
            p3 == ImpactMark \o impact
            p4 == FixMark \o fix
            present == { x \in {issue, code_snippet, impact, fix} : x # Empty }
            Size(x, n) == IF x # Empty THEN n ELSE 0
        IN  /\ issue # Empty <=> StartsWith(Body, Stars \o severity \o Stars)
            /\ issue # Empty => StartsWith(Body, p1)
            /\ code_snippet # Empty <=> Contains(Body, CodeMark)
            /\ code_snippet # Empty => Contains(Body, <<NL>> \o p2)
            /\ impact # Empty <=> Contains(Body, ImpactMark)
            /\ impact # Empty => Contains(Body, <<NL>> \o p3)
            /\ fix # Empty <=> Contains(Body, FixMark)
            /\ fix # Empty => EndsWith(Body, <<NL>> \o p4)
            /\ (code_snippet # Empty /\ impact # Empty) =>
                   IndexOf(Body, CodeMark) < IndexOf(Body, ImpactMark)
            /\ (code_snippet # Empty /\ fix # Empty) =>
                   IndexOf(Body, CodeMark) < IndexOf(Body, FixMark)
            /\ (impact # Empty /\ fix # Empty) =>
                   IndexOf(Body, ImpactMark) < IndexOf(Body, FixMark)
            /\ (issue # Empty /\ ~Has(f, "severity")) =>
                   StartsWith(Body, SeverityLine(Suggestion, issue))
            /\ present # {} =>
                   /\ Emitted
                   /\ Len(Body) =
                          Size(issue, Len(p1)) + Size(code_snippet, Len(p2) + 2)
                              + Size(impact, Len(p3) + 2) + Size(fix, Len(p4) + 2)
                              - (IF issue = Empty THEN 1 ELSE 0)
            /\ present = {} => comments = << >> /\ FormatCommentMessage(f) = Empty

\* C15 witness: a finding with all four fields and no severity got a comment
\* that starts with the SUGGESTION line and ends with the fix line.
C15_Witness ==
    /\ bpc = "done"
    /\ Finding = [file |-> "a.py", line |-> 1, issue |-> Risky,
                  impact |-> Leaks, fix |-> QuoteIt, code_snippet |-> DefF]
    /\ StartsWith(Body, SeverityLine(Suggestion, Risky))
    /\ EndsWith(Body, FixMark \o QuoteIt)
    /\ IndexOf(Body, CodeMark) < IndexOf(Body, ImpactMark)

\* C16: the body of a placed Legacy finding starts with the
\* severity-and-message line; it goes on, after an empty line, with the fenced
\* block of the code_snippet tagged with its language when the code_snippet is
\* non-empty and not in the message, and it is that line alone otherwise.
C16_LegacyBlockUnlessQuoted ==
    (bpc = "done" /\ Placed(Finding) /\ IsLegacy(Finding)) =>
        LET f == Finding
            first == SeverityLine(Get(f, "severity", Suggestion), f["message"])
            code_snippet == Field(f, "code_snippet")
            appended == code_snippet # Empty /\ ~Contains(f["message"], code_snippet)
        IN  /\ Emitted
            /\ StartsWith(Body, first)
            /\ appended <=> Contains(Body, Fence)
            /\ appended <=> Len(Body) > Len(first)
            /\ appended =>
                   Body = first \o <<NL, NL>> \o Fence \o DetectLanguage(code_snippet)
                              \o <<NL>> \o code_snippet \o <<NL>> \o Fence

\* C16 witness: a Legacy finding whose code_snippet is not in its message got
\* a body that ends with a block tagged python.
C16_Witness ==
    /\ bpc = "done"
    /\ Finding = [file |-> "a.py", line |-> 1, severity |-> High,
                  message |-> UseEvalX, code_snippet |-> DefF]
    /\ StartsWith(Body, SeverityLine(High, UseEvalX))
    /\ EndsWith(Body, Fence \o <<"p", "y", "t", "h", "o", "n", NL>> \o DefF
                        \o <<NL>> \o Fence)

\* ----------------------------------------- properties of _detect_language
\* The categories in their order, and the ones a snippet has a keyword of,
\* whatever the case of its letters.
Tags ==
    << <<"p", "y", "t", "h", "o", "n">>,
       <<"j", "a", "v", "a", "s", "c", "r", "i", "p", "t">>,
       <<"j", "a", "v", "a">>,
       <<"c", "p", "p">>,
       <<"g", "o">> >>
TextTag == <<"t", "e", "x", "t">>
KeywordsOf(i) ==
    CASE i = 1 -> PythonKeywords
      [] i = 2 -> JavaScriptKeywords
      [] i = 3 -> JavaKeywords
      [] i = 4 -> CppKeywords
      [] i = 5 -> GoKeywords
Matched(snippet) ==
    { i \in DOMAIN Tags :
        \E k \in KeywordsOf(i) : Contains(Lower(snippet), Lower(k)) }

\* C17: for a snippet with a keyword of some category, in any case of its
\* letters, the tag returned is that of the first such category in the order
\* python, javascript, java, cpp, go; the snippet in upper case and in lower
\* case gets the same tag.
C17_FirstCategoryCaseInsensitive ==
    cpc = "returned" =>
        /\ Matched(code_snippet_arg) # {} =>
               language = Tags[Min(Matched(code_snippet_arg))]
        /\ DetectLanguage(Upper(code_snippet_arg)) = language
        /\ DetectLanguage(Lower(code_snippet_arg)) = language

\* C17 witness: a snippet in upper case with a javascript and a go keyword is
\* tagged javascript.
C17_Witness ==
    /\ cpc = "returned"
    /\ code_snippet_arg = <<"C", "O", "N", "S", "T", " ", "F", "U", "N", "C", " ">>
    /\ Matched(code_snippet_arg) = {2, 5}
    /\ language = Tags[2]

\* C18: the tag returned is one of the six, it is text exactly when the
\* snippet has no keyword of any category, the empty snippet among them, and
\* the two snippets of the documentation are tagged python and javascript.
C18_TotalWithTextDefault ==
    cpc = "returned" =>
        /\ language \in { Tags[i] : i \in DOMAIN Tags } \cup {TextTag}
        /\ language = TextTag <=> Matched(code_snippet_arg) = {}
        /\ code_snippet_arg = Empty => language = TextTag
        /\ code_snippet_arg = DefFooImportOs => language = Tags[1]
        /\ code_snippet_arg = ConstArrow => language = Tags[2]

\* C18 witness: the empty snippet is tagged text.
C18_Witness ==
    /\ cpc = "returned"
    /\ code_snippet_arg = Empty
    /\ language = TextTag

\* --------------------------------- properties of verify_webhook_signature
\* C19: with a secret configured, the call returns, and it returns true
\* exactly when the header is "sha256=" followed by the hex HMAC-SHA256 of the
\* payload under the secret; any other header gives false.
C19_TrueExactlyForTheSignature ==
    (cpc # "idle" /\ ~NoSecret(webhook_secret)) =>
        /\ cpc = "returned"
        /\ verified <=>
               signature_header =
                   Sha256Prefix \o HexDigest(webhook_secret, payload_body)

\* C20: with the secret unset or empty, the call returns true, whatever the
\* payload and the header.
C20_NoSecretAcceptsAll ==
    (cpc # "idle" /\ (webhook_secret = None \/ webhook_secret = Empty)) =>
        cpc = "returned" /\ verified

\* C20 witness: with the secret unset, a payload without a header was accepted.
C20_Witness ==
    /\ cpc = "returned"
    /\ webhook_secret = None
    /\ payload_body = BodyObject
    /\ signature_header = Empty
    /\ verified


\* ------------------------------------------------------ _mock_review_diff
InitMock ==
    /\ op = "_mock_review_diff"
    /\ NoArguments
    /\ LocalsIdle
    /\ CallIdle
    /\ token = None
    /\ ai_enabled = FALSE
    /\ hook = [pc |-> "idle"]
    /\ diff_content \in SampleDiffs
    /\ review_result = [overall_review |-> Empty, line_comments |-> << >>]
    /\ threads = << >>

\* return {"overall_review": ..., "line_comments": mock_comments}
MockCall ==
    /\ op = "_mock_review_diff"
    /\ cpc = "idle"
    /\ review_result' = MockReviewDiff(diff_content)
    /\ cpc' = "returned"
    /\ UNCHANGED << op, scanVars, buildVars, code_snippet_arg, language,
                    webhook_secret, payload_body, signature_header, verified,
                    token, ai_enabled, hook, diff_content, threads >>

NextMock == MockCall
SpecMock == InitMock /\ [][NextMock]_vars

\* What the claim says of one finding f of the diff in diff_content: the file
\* whose lines start at the 'diff --git' line s is the one f names, and f's
\* line, resolved against that file's patch (its lines from the first hunk
\* header on), is the position of an added line that is no '+++' marker and
\* holds the snippet and the pattern of f.
DiffLines == Split(diff_content)

SectionEnd(s) ==
    LET later == { j \in (s + 1)..Len(DiffLines) :
                      StartsWith(DiffLines[j], DiffGit) }
    IN  IF later = {} THEN Len(DiffLines)
        ELSE (CHOOSE j \in later : \A k \in later : j <= k) - 1

FirstHunk(s) ==
    LET hunks == { j \in (s + 1)..SectionEnd(s) :
                      StartsWith(DiffLines[j], AtAt) }
    IN  IF hunks = {} THEN 0
        ELSE CHOOSE j \in hunks : \A k \in hunks : j <= k

PatchOf(s) == Join(SubSeq(DiffLines, FirstHunk(s), SectionEnd(s)))

PositionIn(f, s) ==
    CalculatePosition([filename |-> f["file"], patch |-> PatchOf(s)], f["line"])

TracedTo(f, s) ==
    /\ StartsWith(DiffLines[s], DiffGit)
    /\ PathString(FileOfHeader(DiffLines[s], None)) = f["file"]
    /\ FirstHunk(s) # 0
    /\ PositionIn(f, s) > 0
    /\ LET line == DiffLines[FirstHunk(s) + PositionIn(f, s) - 1]
       IN  /\ StartsWith(line, <<"+">>)
           /\ ~StartsWith(line, <<"+", "+", "+">>)
           /\ FirstPattern(line) # 0
           /\ f["issue"] = IssuePatterns[FirstPattern(line)].message
           /\ f["code_snippet"] = Strip(Tail(line))

\* a diff as git writes it: after the file lines of a file comes a hunk
\* header, and each hunk starts behind the lines of the hunk before it
RECURSIVE HunksInOrder(_, _, _)
HunksInOrder(lines, i, cur) ==
    IF i > Len(lines) THEN TRUE
    ELSE LET line == lines[i] IN
        IF StartsWith(line, DiffGit) THEN HunksInOrder(lines, i + 1, -1)
        ELSE IF StartsWith(line, AtAt)
        THEN /\ HunkMatch(line)
             /\ HunkNewStart(line) - 1 >= cur
             /\ HunksInOrder(lines, i + 1, HunkNewStart(line) - 1)
        ELSE IF line \in {IndexLine} \/ StartsWith(line, MinusA)
                  \/ StartsWith(line, PlusB)
        THEN HunksInOrder(lines, i + 1, cur)
        ELSE /\ cur >= 0
             /\ HunksInOrder(lines, i + 1,
                             IF StartsWith(line, <<"-">>) THEN cur ELSE cur + 1)

\* C27: for a unified diff of one or more files every finding of
\* _mock_review_diff refers to an added content line of the file it names,
\* never to a '+++' marker, no two findings refer to the same added line, and
\* _calculate_position on the finding's line and that file's patch returns
\* the position of the line that triggered the finding.
C27_MockFindingsResolveToTheirLines ==
    (cpc = "returned" /\ op = "_mock_review_diff"
        /\ HunksInOrder(DiffLines, 1, -1)) =>
        LET fs == review_result["line_comments"]
        IN  /\ \A k \in DOMAIN fs : \E s \in DOMAIN DiffLines : TracedTo(fs[k], s)
            /\ \A j, k \in DOMAIN fs : \A s \in DOMAIN DiffLines :
                   (j # k /\ TracedTo(fs[j], s) /\ TracedTo(fs[k], s))
                       => PositionIn(fs[j], s) # PositionIn(fs[k], s)


\* ========================================================================
\* The webhook request: github_webhook of main.py with the calls it makes.
\* ========================================================================
\* ------------------------------------------------------------- json.loads
\* A JSON object is a record, a JSON string a tuple of characters; a JSON
\* array, number or string where an object is expected is a record with one
\* field that names its Python type.
Ok == <<"o", "k">>
ContentGood ==
    <<"{", "\"", "o", "v", "e", "r", "a", "l", "l", "_", "r", "e", "v", "i",
      "e", "w", "\"", ":", "\"", "o", "k", "\"", ",", "\"", "l", "i", "n",
      "e", "_", "c", "o", "m", "m", "e", "n", "t", "s", "\"", ":", "[", "{",
      "\"", "f", "i", "l", "e", "\"", ":", "\"", "a", ".", "p", "y", "\"",
      ",", "\"", "l", "i", "n", "e", "\"", ":", "1", ",", "\"", "s", "e",
      "v", "e", "r", "i", "t", "y", "\"", ":", "\"", "H", "I", "G", "H",
      "\"", ",", "\"", "i", "s", "s", "u", "e", "\"", ":", "\"", "r", "i",
      "s", "k", "y", "\"", "}", "]", "}">>
ContentNoComments ==
    <<"{", "\"", "o", "v", "e", "r", "a", "l", "l", "_", "r", "e", "v", "i",
      "e", "w", "\"", ":", "\"", "o", "k", "\"", "}">>
ContentNoOverall ==
    <<"{", "\"", "l", "i", "n", "e", "_", "c", "o", "m", "m", "e", "n", "t",
      "s", "\"", ":", "[", "]", "}">>
ContentList == <<"[", "]">>
ContentStringFinding ==
    <<"{", "\"", "o", "v", "e", "r", "a", "l", "l", "_", "r", "e", "v", "i",
      "e", "w", "\"", ":", "\"", "o", "k", "\"", ",", "\"", "l", "i", "n",
      "e", "_", "c", "o", "m", "m", "e", "n", "t", "s", "\"", ":", "[", "\"",
      "r", "i", "s", "k", "y", "\"", "]", "}">>
ContentText == <<"L", "G", "T", "M">>
ContentFenced ==
    <<"H", "e", "r", "e", " ", "i", "t", " ", "i", "s", ":", NL, Backtick, Backtick,
      Backtick, "j", "s", "o", "n", NL, "{", "\"", "o", "v", "e", "r", "a", "l",
      "l", "_", "r", "e", "v", "i", "e", "w", "\"", ":", "\"", "o", "k",
      "\"", "}", NL, Backtick, Backtick, Backtick, NL>>

FindingOnLineOne == [file |-> "a.py", line |-> 1, severity |-> High, issue |-> Risky]

\* parse_webhook_pr reads these keys of a pull_request event
PrData(action) ==
    [action |-> action,
     pull_request |->
         [number |-> 7, title |-> <<"t">>, html_url |-> <<"u">>,
          user |-> [login |-> <<"a">>], head |-> [ref |-> <<"h">>],
          base |-> [ref |-> <<"m">>]],
     repository |->
         [name |-> <<"r">>, full_name |-> <<"o", "/", "r">>,
          owner |-> [login |-> <<"o">>]]]

\* json.loads(text) for the texts above: the value, or JSONDecodeError for a
\* text that is not JSON
JsonLoads(text) ==
    CASE text = BodyBraces -> [value |-> [k \in {} |-> Empty]]
      [] text = BodyObject -> [value |-> [a |-> 1]]
      [] text = BodyOne -> [value |-> [py_int |-> 1]]
      [] text = PrEvent(Opened) -> [value |-> PrData(Opened)]
      [] text = PrEvent(Synchronize) -> [value |-> PrData(Synchronize)]
      [] text = PrEvent(Closed) -> [value |-> PrData(Closed)]
      [] text = PrNoRepository ->
             [value |-> [action |-> Opened, pull_request |-> [number |-> 7]]]
      [] text = ContentGood ->
             [value |-> [overall_review |-> Ok,
                         line_comments |-> << FindingOnLineOne >>]]
      [] text = ContentNoComments -> [value |-> [overall_review |-> Ok]]
      [] text = ContentNoOverall -> [value |-> [line_comments |-> << >>]]
      [] text = ContentList -> [value |-> [py_list |-> << >>]]
      [] text = ContentStringFinding ->
             [value |-> [overall_review |-> Ok, line_comments |-> << FString >>]]
      [] OTHER -> [error |-> "JSONDecodeError"]

\* ----------------------------------------------------------- review_pr_diff
\* What the Analysis Provider does on one call: it raises, or it answers with
\* a message whose content is None or a text.
ProviderOutcomes ==
    { [raises |-> TRUE], [content |-> None] }
        \cup { [content |-> c] :
                  c \in {ContentGood, ContentNoComments, ContentNoOverall,
                         ContentList, ContentStringFinding, ContentText,
                         ContentFenced} }

FenceJson == Fence \o <<"j", "s", "o", "n">>

At(s, i, p) == i + Len(p) - 1 <= Len(s) /\ SubSeq(s, i, i + Len(p) - 1) = p

\* \s* from index i, for the \s of a text with newlines
RECURSIVE SkipWhite(_, _)
SkipWhite(s, i) ==
    IF i <= Len(s) /\ IsWhite(s[i]) THEN SkipWhite(s, i + 1) ELSE i

\* re.search(r'```json\s*(\{.*?\})\s*```', content, re.DOTALL): the ends of
\* group 1 for the match that starts at i, << >> when there is none there
FencedAt(content, i) ==
    IF ~At(content, i, FenceJson) THEN << >>
    ELSE LET open == SkipWhite(content, i + Len(FenceJson))
             closes == { k \in (open + 1)..Len(content) :
                            /\ content[k] = "}"
                            /\ At(content, SkipWhite(content, k + 1), Fence) }
         IN  IF open > Len(content) \/ content[open] # "{" \/ closes = {}
             THEN << >>
             ELSE << open, CHOOSE k \in closes : \A c \in closes : k <= c >>

\* if '```json' in content: ...; if json_match: content = json_match.group(1)
Unfenced(content) ==
    LET starts == { i \in DOMAIN content : FencedAt(content, i) # << >> }
    IN  IF starts = {} THEN content
        ELSE LET first == CHOOSE i \in starts : \A j \in starts : i <= j
             IN  SubSeq(content, FencedAt(content, first)[1],
                        FencedAt(content, first)[2])

AiFailedPrefix ==
    <<"A", "I", " ", "r", "e", "v", "i", "e", "w", " ", "f", "a", "i", "l",
      "e", "d", ":", " ">>
Timeout == <<"t", "i", "m", "e", "o", "u", "t">>
NoChangesText ==
    <<"N", "o", " ", "c", "h", "a", "n", "g", "e", "s", " ", "d", "e", "t",
      "e", "c", "t", "e", "d", " ", "i", "n", " ", "t", "h", "e", " ", "P",
      "R", ".">>

\* _ai_review_diff(diff_content, context) for one outcome of the provider:
\* the except clauses give the two fallbacks, json.loads gives the rest
AiReviewDiff(outcome) ==
    IF Has(outcome, "raises")
    THEN [overall_review |-> AiFailedPrefix \o Timeout, line_comments |-> << >>]
    ELSE IF outcome["content"] = None
    THEN [overall_review |-> AiFailedPrefix \o Timeout, line_comments |-> << >>]
    ELSE LET loaded == JsonLoads(Unfenced(outcome["content"]))
         IN  IF Has(loaded, "error")
             THEN [overall_review |-> outcome["content"],
                   line_comments |-> << >>]
             ELSE loaded["value"]

\* review_pr_diff(diff_content, context)
ReviewPrDiff(diff, enabled, outcome) ==
    IF Strip(diff) = Empty
    THEN [overall_review |-> NoChangesText, line_comments |-> << >>]
    ELSE IF enabled THEN AiReviewDiff(outcome)
    ELSE MockReviewDiff(diff)


\* ---------------------------------------------------------- post_pr_review
\* not self.token: None and "" are the false values
TokenT == <<"t">>
NoToken(t) == t = None \/ t = Empty

\* an approval when there is nothing to comment on
ReviewData_ApprovesWithoutComments(review_body, review_comments) ==
    [body |-> review_body,
     event |-> IF review_comments = << >> THEN "APPROVE" ELSE "COMMENT",
     comments |-> review_comments]

\* data = {"body": review_body, "event": "COMMENT", "comments": [...]}, where
\* comment.dict() has the fields of the comment
ReviewData(review_body, review_comments) ==
    [body |-> review_body, event |-> "COMMENT", comments |-> review_comments]

\* ---------------------------------------------------------- github_webhook
\* What GitHub answers to get_pr_diff: None stands for no token or a
\* RequestException, a text for response.text
Blank == <<" ", NL>>
HookPatch == Join(<<HeaderAt1, AddedEval, ContextX, AddedX>>)
HookDiff == Join(FileLines(APyChars)) \o <<NL>> \o HookPatch
HookFile == [filename |-> "a.py", patch |-> HookPatch]

GetPrDiffOutcomes(t) ==
    IF NoToken(t) THEN {None} ELSE {None, Empty, Blank, HookDiff}

\* What GitHub answers to get_pr_files: [] stands for no token or a
\* RequestException
GetPrFilesOutcomes(t) ==
    IF NoToken(t) THEN { << >> } ELSE { << >>, <<HookFile, FileB>> }

HookPayloads ==
    {Empty, BodyBraces, BodyOne, BodyNotUtf8, PrNoRepository}
        \cup { PrEvent(a) : a \in {Opened, Synchronize, Closed} }

\* the locals of github_webhook on entry, with what it has called and sent
HookStart ==
    [pc |-> "start", webhook_data |-> None, pr_info |-> None,
     diff_content |-> None, pr_files |-> << >>, review_result |-> None,
     inline_comments |-> << >>, calls |-> << >>, sent |-> << >>,
     raised |-> None, response |-> None]

\* a request arrives at the service as it was configured
InitWebhook ==
    /\ op = "github_webhook"
    /\ NoArguments
    /\ LocalsIdle
    /\ code_snippet_arg = Empty
    /\ language = Empty
    /\ webhook_secret \in {None, SecretK}
    /\ payload_body \in HookPayloads
    /\ signature_header \in
           {Empty} \cup (IF NoSecret(webhook_secret) THEN {}
                         ELSE HeadersFor(webhook_secret, payload_body))
    /\ verified = FALSE
    /\ cpc = "idle"
    /\ token \in {None, TokenT}
    /\ ai_enabled \in BOOLEAN
    /\ hook = HookStart
    /\ diff_content = Empty
    /\ review_result = [overall_review |-> Empty, line_comments |-> << >>]
    /\ threads = << >>

HookStep(h) ==
    /\ hook' = h
    /\ UNCHANGED << op, scanVars, buildVars, callVars, token, ai_enabled,
                    diff_content, review_result, threads >>

Raise(type) == HookStep([hook EXCEPT !.pc = "except", !.raised = [type |-> type]])

Respond(h, status_code, text) ==
    HookStep([h EXCEPT !.pc = "done",
                       !.response = [status_code |-> status_code,
                                     text |-> text]])

\* raise HTTPException(status_code=401, detail="Invalid webhook signature")
HookReject ==
    /\ hook.pc = "start"
    /\ cpc = "returned"
    /\ ~verified
    /\ HookStep([hook EXCEPT !.pc = "except",
                             !.raised = [type |-> "HTTPException",
                                         status_code |-> 401]])

\* verify_webhook_signature raised
HookVerifyRaised ==
    /\ hook.pc = "start"
    /\ cpc = "raised"
    /\ Raise("TypeError")

\* payload_body.decode() raises UnicodeDecodeError
HookDecodeError ==
    /\ hook.pc = "start"
    /\ cpc = "returned"
    /\ verified
    /\ \E k \in DOMAIN payload_body : payload_body[k] = ByteFF
    /\ Raise("UnicodeDecodeError")

\* json.loads raises JSONDecodeError
HookJsonDecodeError ==
    /\ hook.pc = "start"
    /\ cpc = "returned"
    /\ verified
    /\ \A k \in DOMAIN payload_body : payload_body[k] # ByteFF
    /\ Has(JsonLoads(payload_body), "error")
    /\ Raise("JSONDecodeError")

\* webhook_data = json.loads(payload_body.decode())
HookJsonLoads ==
    /\ hook.pc = "start"
    /\ cpc = "returned"
    /\ verified
    /\ \A k \in DOMAIN payload_body : payload_body[k] # ByteFF
    /\ ~Has(JsonLoads(payload_body), "error")
    /\ HookStep([hook EXCEPT !.pc = "parsed",
                             !.webhook_data = JsonLoads(payload_body)["value"]])

\* parse_webhook_pr: "pull_request" not in webhook_data, on a number
HookParseTypeError ==
    /\ hook.pc = "parsed"
    /\ ~IsJsonObject(hook.webhook_data)
    /\ HookStep([hook EXCEPT !.pc = "except",
                             !.calls = Append(@, "parse_webhook_pr"),
                             !.raised = [type |-> "TypeError"]])

\* if not pr_info: return {"message": "Not a pull request event"}
HookNotPullRequest ==
    /\ hook.pc = "parsed"
    /\ IsJsonObject(hook.webhook_data)
    /\ ~Has(hook.webhook_data, "pull_request")
    /\ Respond([hook EXCEPT !.calls = Append(@, "parse_webhook_pr")],
               200, "Not a pull request event")

\* the keys parse_webhook_pr subscripts
PrKeysPresent(data) ==
    /\ Has(data, "repository")
    /\ \A k \in {"number", "title", "html_url", "user", "head", "base"} :
           Has(data["pull_request"], k)
    /\ Has(data["pull_request"]["user"], "login")
    /\ Has(data["pull_request"]["head"], "ref")
    /\ Has(data["pull_request"]["base"], "ref")
    /\ \A k \in {"name", "full_name", "owner"} : Has(data["repository"], k)
    /\ Has(data["repository"]["owner"], "login")

\* parse_webhook_pr raises KeyError
HookParseKeyError ==
    /\ hook.pc = "parsed"
    /\ IsJsonObject(hook.webhook_data)
    /\ Has(hook.webhook_data, "pull_request")
    /\ ~PrKeysPresent(hook.webhook_data)
    /\ HookStep([hook EXCEPT !.pc = "except",
                             !.calls = Append(@, "parse_webhook_pr"),
                             !.raised = [type |-> "KeyError"]])

\* the dict parse_webhook_pr returns
ParseWebhookPr(data) ==
    [action |-> Get(data, "action", None),
     pr_number |-> data["pull_request"]["number"],
     pr_title |-> data["pull_request"]["title"],
     pr_url |-> data["pull_request"]["html_url"],
     repo_owner |-> data["repository"]["owner"]["login"],
     repo_name |-> data["repository"]["name"],
     repo_full_name |-> data["repository"]["full_name"],
     author |-> data["pull_request"]["user"]["login"],
     head_branch |-> data["pull_request"]["head"]["ref"],
     base_branch |-> data["pull_request"]["base"]["ref"]]

\* pr_info = github_service.parse_webhook_pr(webhook_data)
HookParsePr ==
    /\ hook.pc = "parsed"
    /\ IsJsonObject(hook.webhook_data)
    /\ Has(hook.webhook_data, "pull_request")
    /\ PrKeysPresent(hook.webhook_data)
    /\ HookStep([hook EXCEPT !.pc = "pr",
                             !.calls = Append(@, "parse_webhook_pr"),
                             !.pr_info = ParseWebhookPr(hook.webhook_data)])

\* a closed pull request is reviewed as well
ReviewedActions_WithClosed == {Opened, Synchronize, Closed}

\* ["opened", "synchronize"]
ReviewedActions == {Opened, Synchronize}

\* if pr_info["action"] not in [...]: return {"message": "Ignored action: ..."}
HookIgnoredAction ==
    /\ hook.pc = "pr"
    /\ hook.pr_info["action"] \notin ReviewedActions
    /\ Respond(hook, 200, "Ignored action")

\* diff_content = github_service.get_pr_diff(...)
HookGetDiff ==
    /\ hook.pc = "pr"
    /\ hook.pr_info["action"] \in ReviewedActions
    /\ \E text \in GetPrDiffOutcomes(token) :
           HookStep([hook EXCEPT !.pc = "diff",
                                 !.calls = Append(@, "get_pr_diff"),
                                 !.diff_content = text])

\* if not diff_content: return {"message": "Could not fetch PR diff"}
HookNoDiff ==
    /\ hook.pc = "diff"
    /\ hook.diff_content \in {None, Empty}
    /\ Respond(hook, 200, "Could not fetch PR diff")

\* pr_files = github_service.get_pr_files(...)
HookGetFiles ==
    /\ hook.pc = "diff"
    /\ hook.diff_content \notin {None, Empty}
    /\ \E files \in GetPrFilesOutcomes(token) :
           HookStep([hook EXCEPT !.pc = "files",
                                 !.calls = Append(@, "get_pr_files"),
                                 !.pr_files = files])

\* review_result = review_service.review_pr_diff(diff_content, "PR diff")
HookReview ==
    /\ hook.pc = "files"
    /\ \E outcome \in ProviderOutcomes :
           HookStep([hook EXCEPT
               !.pc = "reviewed",
               !.calls = Append(@, "review_pr_diff"),
               !.review_result =
                   ReviewPrDiff(hook.diff_content, ai_enabled, outcome)])

\* create_inline_comments raises AttributeError
HookBuildRaises ==
    /\ hook.pc = "reviewed"
    /\ InlineRaises(hook.review_result)
    /\ HookStep([hook EXCEPT !.pc = "except",
                             !.calls = Append(@, "create_inline_comments"),
                             !.raised = [type |-> "AttributeError"]])

\* inline_comments = github_service.create_inline_comments(review_result,
\* pr_files)
HookBuild ==
    /\ hook.pc = "reviewed"
    /\ ~InlineRaises(hook.review_result)
    /\ HookStep([hook EXCEPT
           !.pc = "built",
           !.calls = Append(@, "create_inline_comments"),
           !.inline_comments =
               InlineComments(hook.review_result, hook.pr_files)])

\* review_result['overall_review'] raises KeyError
HookOverallKeyError ==
    /\ hook.pc = "built"
    /\ ~Has(hook.review_result, "overall_review")
    /\ Raise("KeyError")

Robot == "<robot>"
ReviewTitle ==
    <<" ", "A", "I", " ", "T", "e", "c", "h", "n", "i", "c", "a", "l", " ",
      "C", "o", "d", "e", " ", "R", "e", "v", "i", "e", "w", NL, NL, "*",
      "*", "P", "u", "l", "l", " ", "R", "e", "q", "u", "e", "s", "t", ":",
      "*", "*", " ">>
ReviewAuthor ==
    <<NL, "*", "*", "A", "u", "t", "h", "o", "r", ":", "*", "*", " ", "@">>
ReviewIssues ==
    <<NL, NL, "*", "*", "T", "e", "c", "h", "n", "i", "c", "a", "l", " ",
      "I", "s", "s", "u", "e", "s", " ", "F", "o", "u", "n", "d", ":", "*",
      "*", " ">>
ReviewFooter ==
    <<" ", "i", "n", "l", "i", "n", "e", " ", "c", "o", "m", "m", "e", "n",
      "t", "s", NL, NL, "-", "-", "-", NL, "*", "A", "u", "t", "o", "m", "a",
      "t", "e", "d", " ", "t", "e", "c", "h", "n", "i", "c", "a", "l", " ",
      "r", "e", "v", "i", "e", "w", " ", "f", "o", "c", "u", "s", "i", "n",
      "g", " ", "o", "n", " ", "s", "y", "n", "t", "a", "x", ",", " ", "b",
      "e", "s", "t", " ", "p", "r", "a", "c", "t", "i", "c", "e", "s", ",",
      " ", "s", "e", "c", "u", "r", "i", "t", "y", ",", " ", "a", "n", "d",
      " ", "p", "e", "r", "f", "o", "r", "m", "a", "n", "c", "e", "*", NL,
      " ", " ", " ", " ", " ", " ", " ", " ">>

\* overall_review = f"""## ... """
OverallReview(pr_info, review, inline_comments) ==
    <<"#", "#", " ", Robot>> \o ReviewTitle \o pr_info["pr_title"]
        \o ReviewAuthor \o pr_info["author"] \o <<NL, NL>>
        \o review["overall_review"] \o ReviewIssues
        \o Str(Len(inline_comments)) \o ReviewFooter

\* success = github_service.post_pr_review(...), and the two returns; the
\* request is made unless there is no token, and it succeeds or raises
\* RequestException
HookPost ==
    /\ hook.pc = "built"
    /\ Has(hook.review_result, "overall_review")
    /\ LET data == ReviewData(OverallReview(hook.pr_info, hook.review_result,
                                            hook.inline_comments),
                              hook.inline_comments)
           called == [hook EXCEPT !.calls = Append(@, "post_pr_review")]
       IN  IF NoToken(token)
           THEN Respond(called, 200,
                        "Review generated but failed to post to GitHub")
           ELSE \E success \in BOOLEAN :
                    Respond([called EXCEPT !.sent = Append(@, data)], 200,
                            IF success
                            THEN "Technical review completed successfully"
                            ELSE "Review generated but failed to post to GitHub")

\* except json.JSONDecodeError: raise HTTPException(status_code=400, ...)
HookExceptJson ==
    /\ hook.pc = "except"
    /\ hook.raised["type"] = "JSONDecodeError"
    /\ Respond(hook, 400, "Invalid JSON payload")

\* except Exception as e: raise HTTPException(status_code=500, ...);
\* HTTPException is a subclass of Exception
HookExceptException ==
    /\ hook.pc = "except"
    /\ hook.raised["type"] # "JSONDecodeError"
    /\ Respond(hook, 500, "Webhook processing failed")

NextWebhook ==
    \/ VerifySkip
    \/ VerifyCompare
    \/ VerifyTypeError
    \/ HookReject
    \/ HookVerifyRaised
    \/ HookDecodeError
    \/ HookJsonDecodeError
    \/ HookJsonLoads
    \/ HookParseTypeError
    \/ HookNotPullRequest
    \/ HookParseKeyError
    \/ HookParsePr
    \/ HookIgnoredAction
    \/ HookGetDiff
    \/ HookNoDiff
    \/ HookGetFiles
    \/ HookReview
    \/ HookBuildRaises
    \/ HookBuild
    \/ HookOverallKeyError
    \/ HookPost
    \/ HookExceptJson
    \/ HookExceptException

SpecWebhook == InitWebhook /\ [][NextWebhook]_vars



\* the calls github_webhook has made so far
Called(name) == \E i \in DOMAIN hook.calls : hook.calls[i] = name

\* C21: whenever verify_webhook_signature returns false the request is
\* rejected with HTTP 401 before the payload is parsed: no diff and no file
\* list is fetched, no analysis is requested and no review is posted.
C21_FalseSignatureGives401 ==
    (op = "github_webhook" /\ cpc = "returned" /\ ~verified) =>
        /\ hook.pc \in {"start", "except", "done"}
        /\ hook.calls = << >>
        /\ hook.sent = << >>
        /\ hook.pc = "done" => hook.response["status_code"] = 401

\* C22: every review that post_pr_review sends, whatever its body and its
\* comments, the empty list included, has the event COMMENT, and it carries
\* the body and the comments it was given.
C22_EveryReviewIsACommentEvent ==
    op = "github_webhook" =>
        \A i \in DOMAIN hook.sent :
            /\ hook.sent[i]["event"] = "COMMENT"
            /\ hook.sent[i]["event"] \notin {"APPROVE", "REQUEST_CHANGES"}
            /\ hook.sent[i]["comments"] = hook.inline_comments
            /\ hook.sent[i]["body"] =
                   OverallReview(hook.pr_info, hook.review_result,
                                 hook.inline_comments)

\* a review without comments has been sent
C22_Witness ==
    /\ op = "github_webhook"
    /\ hook.pc = "done"
    /\ Len(hook.sent) = 1
    /\ hook.sent[1]["comments"] = << >>
    /\ hook.sent[1]["event"] = "COMMENT"

\* C23: whatever the Analysis Provider does (it raises, it answers with a
\* text that is not JSON, or with JSON of any shape), review_pr_diff returns
\* a result with overall_review and a list line_comments, and the request
\* goes on to post the review.
C23_ReviewResultAlwaysUsable ==
    (op = "github_webhook" /\ Called("review_pr_diff")) =>
        /\ IsJsonObject(hook.review_result)
        /\ Has(hook.review_result, "overall_review")
        /\ Has(hook.review_result, "line_comments")
        /\ hook.pc = "done" => Called("post_pr_review")

\* the order of the calls in one request
HookOrder ==
    << "parse_webhook_pr", "get_pr_diff", "get_pr_files", "review_pr_diff",
       "create_inline_comments", "post_pr_review" >>

NotPullRequest ==
    /\ Called("parse_webhook_pr")
    /\ \/ ~IsJsonObject(hook.webhook_data)
       \/ ~Has(hook.webhook_data, "pull_request")

OtherAction ==
    /\ Called("parse_webhook_pr")
    /\ ~NotPullRequest
    /\ Get(hook.webhook_data, "action", None) \notin {Opened, Synchronize}

DiffNotFetched ==
    /\ Called("get_pr_diff")
    /\ hook.diff_content \in {None, Empty}

\* C28: in one request the calls come in one order and at most one review is
\* posted; post_pr_review is called only after the signature was verified,
\* the payload was a pull_request event with the action opened or
\* synchronize, and a diff that is not empty was fetched; with another event,
\* another action or no diff no analysis is requested and nothing is posted.
C28_StepsInOrderOnePost ==
    op = "github_webhook" =>
        /\ hook.calls = SubSeq(HookOrder, 1, Len(hook.calls))
        /\ Len(hook.sent) <= 1
        /\ hook.sent # << >> => Called("post_pr_review")
        /\ hook.calls # << >> => (cpc = "returned" /\ verified)
        /\ Called("post_pr_review") =>
               /\ Has(hook.webhook_data, "pull_request")
               /\ hook.webhook_data["action"] \in {Opened, Synchronize}
               /\ hook.diff_content \notin {None, Empty}
        /\ (NotPullRequest \/ OtherAction \/ DiffNotFetched) =>
               /\ ~Called("get_pr_files")
               /\ ~Called("review_pr_diff")
               /\ ~Called("post_pr_review")
               /\ hook.sent = << >>

\* a request that went through every step and posted its review
C28_Witness ==
    /\ op = "github_webhook"
    /\ hook.pc = "done"
    /\ hook.calls = HookOrder
    /\ Len(hook.sent) = 1
    /\ hook.webhook_data["action"] = Synchronize


\* ========================================================================
\* create_inline_comments on lists of files in any order, with findings for
\* several of them.
\* ========================================================================
\* FileC has the patch of FileA under another name; the lists hold each of
\* the four files at most once, so a.py may come twice, as FileA and FileA2.
FileC == [filename |-> "c.py", patch |-> FileA["patch"]]
FStructuredOnC == [FStructured EXCEPT !["file"] = "c.py"]

FileListsInAnyOrder ==
    { fl \in UNION { [1..n -> {FileA, FileA2, FileB, FileC}] :
                        n \in 0..MaxFileList } :
         \A i, j \in DOMAIN fl : i # j => fl[i] # fl[j] }

FindingsForFiles ==
    UNION { [1..n -> {FStructured, FLegacy, FStructuredOnC, FNoPatch}] :
               n \in 0..MaxFileFindings }

InitFiles ==
    /\ op = "create_inline_comments"
    /\ file_data = [filename |-> ""]
    /\ target_line = 0
    /\ \E fs \in FindingsForFiles :
           ai_review_result = [overall_review |-> "ok", line_comments |-> fs]
    /\ pr_files \in FileListsInAnyOrder
    /\ LocalsIdle
    /\ CallIdle
    /\ ExtIdle

NextFiles ==
    \/ BuildCall
    \/ DropUnknownFile
    \/ DropUnresolved
    \/ EmitComment
    \/ BuildReturn

SpecFiles == InitFiles /\ [][NextFiles]_vars

\* the entries of the file list with the name that f names, and what
\* create_inline_comments returns for f alone with those entries alone
OwnFiles(f) == SelectSeq(pr_files, LAMBDA fd : fd["filename"] = f["file"])
Alone(f) == InlineComments([line_comments |-> << f >>], OwnFiles(f))

PositionAlone(f) == IF Alone(f) = << >> THEN 0 ELSE Alone(f)[1]["position"]

RECURSIVE EachAlone(_)
EachAlone(fs) ==
    IF fs = << >> THEN << >> ELSE Alone(fs[1]) \o EachAlone(Tail(fs))

DistinctNames ==
    \A i, j \in DOMAIN pr_files :
        i # j => pr_files[i]["filename"] # pr_files[j]["filename"]

\* C24: the position of a comment depends on the patch of the finding's own
\* file and on the finding's line only: with file names that differ, the
\* comments returned are those each finding gives alone with its own file
\* alone, whatever other files and findings there are and in whatever order;
\* two files with the same patch text give the same position for the same
\* line.
C24_PositionDependsOnOwnPatchOnly ==
    (op = "create_inline_comments" /\ bpc = "done" /\ DistinctNames) =>
        /\ comments = EachAlone(line_comments)
        /\ \A i, j \in DOMAIN pr_files :
               (/\ Has(pr_files[i], "patch") /\ Has(pr_files[j], "patch")
                /\ pr_files[i]["patch"] = pr_files[j]["patch"]) =>
                   \A t \in 0..MaxTarget :
                       CalculatePosition(pr_files[i], t)
                           = CalculatePosition(pr_files[j], t)
        /\ \A a, b \in DOMAIN line_comments :
               (/\ line_comments[a]["line"] = line_comments[b]["line"]
                /\ OwnFiles(line_comments[a]) # << >>
                /\ OwnFiles(line_comments[b]) # << >>
                /\ Get(OwnFiles(line_comments[a])[1], "patch", None)
                       = Get(OwnFiles(line_comments[b])[1], "patch", None)) =>
                   PositionAlone(line_comments[a])
                       = PositionAlone(line_comments[b])

\* c.py, b.py and a.py in that order, a finding for a.py behind one for c.py
\* on the same line: both comments are at position 2
C24_Witness ==
    /\ op = "create_inline_comments"
    /\ bpc = "done"
    /\ pr_files = <<FileC, FileB, FileA>>
    /\ line_comments = <<FStructuredOnC, FStructured>>
    /\ Len(comments) = 2
    /\ comments[1]["position"] = 2
    /\ comments[2]["position"] = 2
    /\ comments[2]["path"] = "a.py"

\* the last entry of the file list with the name that f names
LastNamed(name) ==
    pr_files[CHOOSE i \in DOMAIN pr_files :
                 /\ pr_files[i]["filename"] = name
                 /\ \A j \in DOMAIN pr_files :
                        pr_files[j]["filename"] = name => j <= i]

AgainstLast(f) ==
    InlineComments([line_comments |-> << f >>],
                   IF OwnFiles(f) = << >> THEN << >>
                   ELSE << LastNamed(f["file"]) >>)

RECURSIVE EachAgainstLast(_)
EachAgainstLast(fs) ==
    IF fs = << >> THEN << >>
    ELSE AgainstLast(fs[1]) \o EachAgainstLast(Tail(fs))

\* C30: when a file name comes twice in the file list, every finding for
\* that name is resolved against the patch of the last entry with the name:
\* the comments are those of the list without the earlier entries, and a
\* comment's position is the position of its line in that last patch.
C30_LastEntryOfANameWins ==
    (op = "create_inline_comments" /\ bpc = "done") =>
        /\ comments = EachAgainstLast(line_comments)
        /\ \A k \in DOMAIN comments :
               \E i \in DOMAIN line_comments :
                   /\ line_comments[i]["file"] = comments[k]["path"]
                   /\ comments[k]["position"] =
                          CalculatePosition(LastNamed(comments[k]["path"]),
                                            line_comments[i]["line"])

\* a.py twice: line 3 is at position 4 in the first patch and at position 2
\* in the last one
C30_Witness ==
    /\ op = "create_inline_comments"
    /\ bpc = "done"
    /\ pr_files = <<FileA, FileA2>>
    /\ line_comments = <<FLegacy, FStructured>>
    /\ CalculatePosition(FileA, 3) = 4
    /\ Len(comments) = 1
    /\ comments[1]["position"] = 2

\* ========================================================================
\* create_inline_comments end to end: one file whose patch has one added
\* line, one structured finding for that file.
\* ========================================================================
\* The lines ahead of the added line's hunk: the two file markers or none,
\* then an earlier hunk or none, then the header of the hunk.
PatchHeads ==
    { m \o h : m \in {<< >>, <<MarkerOld, MarkerNew>>},
               h \in {<<HeaderAt1>>, <<HeaderAt3>>,
                      <<HeaderAt1, ContextX, HeaderAt3>>,
                      <<HeaderAt1, RemovedX, HeaderAt3>>} }

Around == UNION { [1..n -> {ContextX, RemovedX}] : n \in 0..MaxAround }

OneAddedLinePatches ==
    { Join(h \o pre \o <<AddedEval>> \o post) :
        h \in PatchHeads, pre \in Around, post \in Around }

\* The added lines of a patch, a "+++" file marker not being one, and the
\* new-file number of the line at index i: the new start of the last hunk
\* header ahead of it plus the context lines between the two.
AddedLinesOf(lines) ==
    { i \in DOMAIN lines :
        /\ StartsWith(lines[i], <<"+">>)
        /\ ~StartsWith(lines[i], <<"+", "+", "+">>) }

NewFileNumber(lines, i) ==
    LET h == LastParsedHeader(lines, i)
    IN  HunkNewStart(lines[h])
            + Cardinality({ j \in (h + 1)..(i - 1) : StartsWith(lines[j], <<" ">>) })

TheAddedLine(patch) == CHOOSE i \in AddedLinesOf(Split(patch)) : TRUE

\* the finding: severity HIGH and an issue, with and without a snippet, on
\* the added line or on the line after it, which the patch does not hold
EndToEndFindings(patch) ==
    { [FindingOf([severity |-> High, issue |-> Risky, code_snippet |-> c])
          EXCEPT !["line"] = NewFileNumber(Split(patch), TheAddedLine(patch)) + d] :
        c \in {Absent, EvalX}, d \in {0, 1} }

InitEndToEnd ==
    /\ op = "create_inline_comments"
    /\ file_data = [filename |-> ""]
    /\ target_line = 0
    /\ \E patch \in OneAddedLinePatches :
           /\ pr_files = << [filename |-> "a.py", patch |-> patch] >>
           /\ \E f \in EndToEndFindings(patch) :
                  ai_review_result =
                      [overall_review |-> "ok", line_comments |-> << f >>]
    /\ LocalsIdle
    /\ CallIdle
    /\ ExtIdle

NextEndToEnd ==
    \/ BuildCall
    \/ DropUnresolved
    \/ EmitComment
    \/ BuildReturn

SpecEndToEnd == InitEndToEnd /\ [][NextEndToEnd]_vars

\* the case of the claim: one file, its patch with exactly one added line,
\* one structured finding for that file on that line with severity HIGH and
\* an issue that is not empty
EndToEndCase ==
    /\ Len(pr_files) = 1
    /\ Len(line_comments) = 1
    /\ LET lines == Split(pr_files[1]["patch"])
           f == line_comments[1]
       IN  /\ Cardinality(AddedLinesOf(lines)) = 1
           /\ f["file"] = pr_files[1]["filename"]
           /\ IsStructured(f)
           /\ f["severity"] = High
           /\ Get(f, "issue", Empty) # Empty
           /\ f["line"] = NewFileNumber(lines, TheAddedLine(pr_files[1]["patch"]))

OneCommentOnTheAddedLine ==
    /\ Len(comments) = 1
    /\ comments[1]["path"] = pr_files[1]["filename"]
    /\ comments[1]["position"] = TheAddedLine(pr_files[1]["patch"])
    /\ Contains(comments[1]["body"], High)

\* C26: end to end, for a file list of one file whose patch has exactly one
\* added line and a result of one structured finding for that file on that
\* line, with severity HIGH and an issue that is not empty,
\* create_inline_comments returns exactly one comment: its path is the file,
\* its position is the position of the added line in the patch, and its body
\* contains HIGH.
C26_EndToEndOneComment ==
    (op = "create_inline_comments" /\ bpc = "done" /\ EndToEndCase)
        => OneCommentOnTheAddedLine

\* the same for the patches that begin with their hunk header, as the
\* "patch" of a file of the pull request files API does
C26_HoldsWithoutFileMarkers ==
    (/\ op = "create_inline_comments" /\ bpc = "done" /\ EndToEndCase
     /\ IsHeaderLine(Split(pr_files[1]["patch"])[1]))
        => OneCommentOnTheAddedLine

\* a patch with its hunk header first, a removed line ahead of the added
\* line: the comment is at position 3
C26_ReachedWithoutFileMarkers ==
    /\ op = "create_inline_comments" /\ bpc = "done" /\ EndToEndCase
    /\ pr_files[1]["patch"] = Join(<<HeaderAt3, RemovedX, AddedEval, ContextX>>)
    /\ line_comments[1]["line"] = 3
    /\ OneCommentOnTheAddedLine
    /\ comments[1]["position"] = 3

\* ========================================================================
\* create_inline_comments with two findings on different lines of one file,
\* whose patch has several hunks.
\* ========================================================================
\* The two file markers or none, a hunk header, and up to MaxHunkLines lines
\* more: added, context and removed lines, and further hunk headers.
HunkPatches ==
    { Join(m \o <<h>> \o rest) :
        m \in {<< >>, <<MarkerOld, MarkerNew>>},
        h \in {HeaderAt1, HeaderAt3},
        rest \in UNION { [1..n -> {HeaderAt1, HeaderAt3, AddedX, ContextX,
                                   RemovedX}] : n \in 0..MaxHunkLines } }

\* the new-file line numbers a patch of HunkPatches can hold
LineNumbers == 1..(3 + MaxHunkLines)

OnLine(n) == [file |-> "a.py", line |-> n, message |-> UseEvalX]
LinePairs == { <<1, 2>>, <<3, 1>>, <<4, 3>> }

InitPositions ==
    /\ op = "create_inline_comments"
    /\ file_data = [filename |-> ""]
    /\ target_line = 0
    /\ \E patch \in HunkPatches :
           pr_files = << [filename |-> "a.py", patch |-> patch] >>
    /\ \E p \in LinePairs :
           ai_review_result =
               [overall_review |-> "ok",
                line_comments |-> << OnLine(p[1]), OnLine(p[2]) >>]
    /\ LocalsIdle
    /\ CallIdle
    /\ ExtIdle

NextPositions ==
    \/ BuildCall
    \/ DropUnresolved
    \/ EmitComment
    \/ BuildReturn

SpecPositions == InitPositions /\ [][NextPositions]_vars

\* The hunk headers of the patch that parse, and the new-file range of the
\* hunk of the header at index h: from its new start, one number for every
\* added and every context line up to the next such header.
ParsedHeaders(lines) ==
    { h \in DOMAIN lines : IsHeaderLine(lines[h]) /\ HunkMatch(lines[h]) }

HunkEnd(lines, heads, start, h) ==
    LET later == { k \in heads : k > h }
        last == IF later = {} THEN Len(lines) ELSE Min(later) - 1
    IN  start[h] - 1
            + Cardinality({ j \in (h + 1)..last :
                  \/ StartsWith(lines[j], <<"+">>)
                  \/ StartsWith(lines[j], <<" ">>) })

HeadersIncreasing(lines) ==
    \A heads \in { ParsedHeaders(lines) } :
        \A start \in { [h \in heads |-> HunkNewStart(lines[h])] } :
            \A h, k \in heads :
                h < k => /\ start[h] < start[k]
                         /\ HunkEnd(lines, heads, start, h) < start[k]

\* C29: for one patch, two different target lines never resolve to the same
\* position other than 0, so the comments of two findings on different lines
\* of one file are at different positions; and when the hunk headers of the
\* patch have increasing new-file ranges that do not overlap, the larger of
\* two target lines that resolve has the larger position.
C29_DistinctLinesDistinctPositions ==
    (op = "create_inline_comments" /\ bpc = "done" /\ Len(pr_files) = 1) =>
        \A resolved \in { [t \in LineNumbers |->
                              CalculatePosition(pr_files[1], t)] } :
            /\ \A t, u \in LineNumbers :
                   (t # u /\ resolved[t] # 0) => resolved[t] # resolved[u]
            /\ \A i, j \in DOMAIN comments :
                   i # j => comments[i]["position"] # comments[j]["position"]
            /\ HeadersIncreasing(Split(pr_files[1]["patch"])) =>
                   \A t, u \in LineNumbers :
                       (t < u /\ resolved[t] # 0 /\ resolved[u] # 0)
                           => resolved[t] < resolved[u]

\* two hunks, an added line in each; the finding on line 3 comes first and
\* has the larger position
C29_Witness ==
    /\ op = "create_inline_comments"
    /\ bpc = "done"
    /\ pr_files[1]["patch"] = Join(<<HeaderAt1, AddedX, HeaderAt3, AddedX>>)
    /\ HeadersIncreasing(Split(pr_files[1]["patch"]))
    /\ line_comments = << OnLine(3), OnLine(1) >>
    /\ Len(comments) = 2
    /\ comments[1]["position"] = 4
    /\ comments[2]["position"] = 2

\* ========================================================================
\* Calls on the one GitHubService instance (github_service, line 319) that
\* run side by side: every thread has the arguments and the locals of its
\* own call, the fields webhook_secret and token belong to the instance.
\* ========================================================================
Threads == {"t1", "t2"}

BuilderArguments ==
    { [method |-> "create_inline_comments", pc |-> "idle",
       ai_review_result |-> [overall_review |-> "ok", line_comments |-> fs],
       pr_files |-> files] :
        fs \in { <<FStructured, FUnknownFile, FLegacy>>, <<FContext, FStructured>>,
                 <<FLegacy, FString>> },
        files \in { <<FileA, FileB>>, <<FileA2>> } }

VerifierArguments ==
    { [method |-> "verify_webhook_signature", pc |-> "idle",
       payload_body |-> payload, signature_header |-> header] :
        payload \in {Empty, BodyBraces},
        header \in {ExpectedSignature(SecretK, BodyBraces), Empty, << NonAscii >>} }

InitConcurrent ==
    /\ op = "concurrent"
    /\ NoArguments
    /\ LocalsIdle
    /\ code_snippet_arg = Empty
    /\ language = Empty
    /\ webhook_secret \in {None, SecretK}
    /\ payload_body = Empty
    /\ signature_header = Empty
    /\ verified = FALSE
    /\ cpc = "idle"
    /\ token \in {None, TokenT}
    /\ ai_enabled = FALSE
    /\ hook = [pc |-> "idle"]
    /\ diff_content = Empty
    /\ review_result = [overall_review |-> Empty, line_comments |-> << >>]
    /\ threads \in [Threads -> BuilderArguments \cup VerifierArguments]

\* one step of thread t: its own frame changes and nothing else
ThreadStep(t, frame) ==
    /\ threads' = [threads EXCEPT ![t] = frame]
    /\ UNCHANGED << op, scanVars, buildVars, callVars, token, ai_enabled, hook,
                    diff_content, review_result >>

Running(t, method, at) ==
    /\ op = "concurrent"
    /\ threads[t]["method"] = method
    /\ threads[t]["pc"] = at

\* comments = []; line_comments = ...; file_map = {...}
ThreadBuildCall(t) ==
    /\ Running(t, "create_inline_comments", "idle")
    /\ ThreadStep(t, [method |-> "create_inline_comments", pc |-> "loop",
                      ai_review_result |-> threads[t]["ai_review_result"],
                      pr_files |-> threads[t]["pr_files"],
                      line_comments |-> Get(threads[t]["ai_review_result"],
                                            "line_comments", << >>),
                      file_map |-> FileMap(threads[t]["pr_files"]),
                      taken |-> 0,
                      comments |-> << >>])

ThreadHasFinding(t) ==
    /\ Running(t, "create_inline_comments", "loop")
    /\ threads[t]["taken"] < Len(threads[t]["line_comments"])

ThreadFinding(t) == threads[t]["line_comments"][threads[t]["taken"] + 1]

\* what the loop body decides for the finding cd with the file map of the
\* call: the comment to append, or none (continue)
ThreadCanEmit(cd, map) ==
    /\ ~MissingFileOrLine(cd)
    /\ cd["file"] \in DOMAIN map
    /\ CalculatePosition(map[cd["file"]], cd["line"]) > 0
    /\ FormatCommentMessage(cd) # Empty

ThreadComment(cd, map) ==
    [body |-> FormatCommentMessage(cd),
     path |-> cd["file"],
     position |-> CalculatePosition(map[cd["file"]], cd["line"])]

\* comment_data.get raises AttributeError
ThreadRaise(t) ==
    /\ ThreadHasFinding(t)
    /\ ~IsDict(ThreadFinding(t))
    /\ ThreadStep(t, [threads[t] EXCEPT !["pc"] = "raised"])

\* continue
ThreadDrop(t) ==
    /\ ThreadHasFinding(t)
    /\ IsDict(ThreadFinding(t))
    /\ ~ThreadCanEmit(ThreadFinding(t), threads[t]["file_map"])
    /\ ThreadStep(t, [threads[t] EXCEPT !["taken"] = @ + 1])

\* the comment goes to the list of every call that is in its loop, as if
\* comments were a field of the instance
ThreadEmit_SharedComments(t) ==
    /\ ThreadHasFinding(t)
    /\ IsDict(ThreadFinding(t))
    /\ ThreadCanEmit(ThreadFinding(t), threads[t]["file_map"])
    /\ threads' =
           [u \in Threads |->
               IF u = t
               THEN [threads[t] EXCEPT
                        !["comments"] =
                            Append(@, ThreadComment(ThreadFinding(t),
                                                    threads[t]["file_map"])),
                        !["taken"] = @ + 1]
               ELSE IF /\ threads[u]["method"] = "create_inline_comments"
                       /\ threads[u]["pc"] = "loop"
               THEN [threads[u] EXCEPT
                        !["comments"] =
                            Append(@, ThreadComment(ThreadFinding(t),
                                                    threads[t]["file_map"]))]
               ELSE threads[u]]
    /\ UNCHANGED << op, scanVars, buildVars, callVars, token, ai_enabled, hook,
                    diff_content, review_result >>

\* comments.append(comment), comments being a local of the call
ThreadEmit(t) ==
    /\ ThreadHasFinding(t)
    /\ IsDict(ThreadFinding(t))
    /\ ThreadCanEmit(ThreadFinding(t), threads[t]["file_map"])
    /\ ThreadStep(t, [threads[t] EXCEPT
                         !["comments"] =
                             Append(@, ThreadComment(ThreadFinding(t),
                                                     threads[t]["file_map"])),
                         !["taken"] = @ + 1])

\* return comments
ThreadBuildReturn(t) ==
    /\ Running(t, "create_inline_comments", "loop")
    /\ threads[t]["taken"] = Len(threads[t]["line_comments"])
    /\ ThreadStep(t, [threads[t] EXCEPT !["pc"] = "done"])

\* if not self.webhook_secret: return True
ThreadVerifySkip(t) ==
    /\ Running(t, "verify_webhook_signature", "idle")
    /\ NoSecret(webhook_secret)
    /\ ThreadStep(t, [method |-> "verify_webhook_signature", pc |-> "done",
                      payload_body |-> threads[t]["payload_body"],
                      signature_header |-> threads[t]["signature_header"],
                      verified |-> TRUE])

\* expected_signature = "sha256=" + hmac.new(self.webhook_secret.encode(), ...)
ThreadVerifyDigest(t) ==
    /\ Running(t, "verify_webhook_signature", "idle")
    /\ ~NoSecret(webhook_secret)
    /\ ThreadStep(t, [method |-> "verify_webhook_signature", pc |-> "compare",
                      payload_body |-> threads[t]["payload_body"],
                      signature_header |-> threads[t]["signature_header"],
                      expected_signature |->
                          ExpectedSignature(webhook_secret,
                                            threads[t]["payload_body"])])

\* return hmac.compare_digest(expected_signature, signature_header)
ThreadVerifyCompare(t) ==
    /\ Running(t, "verify_webhook_signature", "compare")
    /\ IsAscii(threads[t]["signature_header"])
    /\ ThreadStep(t, [method |-> "verify_webhook_signature", pc |-> "done",
                      payload_body |-> threads[t]["payload_body"],
                      signature_header |-> threads[t]["signature_header"],
                      verified |-> threads[t]["expected_signature"]
                                       = threads[t]["signature_header"]])

\* hmac.compare_digest raises TypeError: the header is not ASCII
ThreadVerifyTypeError(t) ==
    /\ Running(t, "verify_webhook_signature", "compare")
    /\ ~IsAscii(threads[t]["signature_header"])
    /\ ThreadStep(t, [threads[t] EXCEPT !["pc"] = "raised"])

NextConcurrent ==
    \E t \in Threads :
        \/ ThreadBuildCall(t)
        \/ ThreadRaise(t)
        \/ ThreadDrop(t)
        \/ ThreadEmit(t)
        \/ ThreadBuildReturn(t)
        \/ ThreadVerifySkip(t)
        \/ ThreadVerifyDigest(t)
        \/ ThreadVerifyCompare(t)
        \/ ThreadVerifyTypeError(t)

SpecConcurrent == InitConcurrent /\ [][NextConcurrent]_vars

\* What the call of a frame gives when it runs alone, and what the call of
\* thread t gave.
Alone25(frame) ==
    IF frame["method"] = "create_inline_comments"
    THEN IF InlineRaises(frame["ai_review_result"])
         THEN [raised |-> "AttributeError"]
         ELSE [returned |-> InlineComments(frame["ai_review_result"],
                                           frame["pr_files"])]
    ELSE IF NoSecret(webhook_secret) THEN [returned |-> TRUE]
    ELSE IF ~IsAscii(frame["signature_header"]) THEN [raised |-> "TypeError"]
    ELSE [returned |-> ExpectedSignature(webhook_secret, frame["payload_body"])
                           = frame["signature_header"]]

Outcome(t) ==
    IF threads[t]["pc"] = "raised"
    THEN [raised |-> IF threads[t]["method"] = "create_inline_comments"
                     THEN "AttributeError" ELSE "TypeError"]
    ELSE [returned |-> IF threads[t]["method"] = "create_inline_comments"
                       THEN threads[t]["comments"] ELSE threads[t]["verified"]]

Arguments(frame) ==
    IF frame["method"] = "create_inline_comments"
    THEN << frame["ai_review_result"], frame["pr_files"] >>
    ELSE << frame["payload_body"], frame["signature_header"] >>

\* C25: calls of create_inline_comments and of verify_webhook_signature on
\* the one instance, interleaved in any order, each give what the call gives
\* alone; no step of a call writes a field of the instance (webhook_secret,
\* token) or changes the finding list, the file list or another argument of
\* a call.
C25_ConcurrentCallsAsAlone ==
    /\ [](op = "concurrent" =>
            \A t \in Threads :
                threads[t]["pc"] \in {"done", "raised"}
                    => Outcome(t) = Alone25(threads[t]))
    /\ [][ op = "concurrent" =>
            /\ webhook_secret' = webhook_secret
            /\ token' = token
            /\ \A t \in Threads :
                   Arguments(threads'[t]) = Arguments(threads[t]) ]_vars

\* the call of t1 has returned its two comments; the call of t2, on another
\* file list, began before that and is in its loop with one comment made
C25_Witness ==
    /\ op = "concurrent"
    /\ threads["t1"]["method"] = "create_inline_comments"
    /\ threads["t1"]["pc"] = "done"
    /\ Len(threads["t1"]["comments"]) = 2
    /\ threads["t2"]["method"] = "create_inline_comments"
    /\ threads["t2"]["pc"] = "loop"
    /\ threads["t2"]["pr_files"] = <<FileA2>>
    /\ threads["t2"]["taken"] = 1
    /\ Len(threads["t2"]["comments"]) = 1

====
